---- MODULE Spec2Model ----
(***************************************************************************)
(* Cyclic multi-agent orchestrator of the oceanographic chat backend       *)
(* (backend-chatbot-test/agent/cyclic_multi_agent.py), the three agents it *)
(* drives (agent/multi_agent_rag.py) and the request path that wraps one   *)
(* invocation (API/core/agent_manager.py, API/routers/chat.py).            *)
(*                                                                         *)
(* One behaviour is one invocation of the compiled graph: the variables    *)
(* are the keys of CyclicAgentState, pc is the graph node about to run.    *)
(* Scores are kept exact: a sub-score is counted in sixtieths (0.4 = 24),  *)
(* the overall mean of the four sub-scores in 240ths (0.7 = 168).          *)
(***************************************************************************)
EXTENDS Integers, Sequences, FiniteSets, TLC

VARIABLES
    query,                  \* state["query"]
    intent,                 \* state["intent"]
    cycle_count,            \* state["cycle_count"]
    max_cycles,             \* state["max_cycles"]
    measurement_results,    \* state["measurement_results"]
    metadata_results,       \* state["metadata_results"]
    semantic_results,       \* state["semantic_results"]
    analysis_results,       \* state["analysis_results"]
    needs_refinement,       \* state["needs_refinement"]
    refinement_suggestions, \* state["refinement_suggestions"]
    quality_score,          \* state["quality_score"], in 240ths
    final_response,         \* state["final_response"]
    error,                  \* state["error"]
    pc,                     \* graph node about to run, "END" when finished
    exec_count,             \* history: runs of execute_agents
    calls,                  \* history: process() calls per agent
    last_called,            \* history: agents called by the last execute_agents
    last_failed,            \* history: agents whose backend or LLM call raised
                            \* in the last execute_agents
    http_status,            \* status of the chat request, 0 while pending
    \* API/core/session_manager.py and API/routers/chat.py
    now,                    \* datetime.now() / time.time(), in ticks
    session_timeout,        \* SessionManager.session_timeout, in ticks
    max_messages_per_session, \* SessionManager.max_messages_per_session
    sessions,               \* SessionManager.sessions: id -> ConversationSession
    uuid_count,             \* uuid4 values handed out as session ids
    message_count,          \* uuid4 values handed out as message ids
    requests,               \* chat requests in flight or answered
    append_log,             \* history: every message appended, per session
    removed_by,             \* history: the operation that removed a session
    last_access,            \* history: time of the last successful access
    \* backend-chatbot/session_manager.py
    fs,                     \* the files of /sessions: id -> session_data
    lock,                   \* SessionManager.lock: the thread holding it
    threads,                \* the calls made by threads, and where each is
    sweeper,                \* the cleanup thread
    file_count,             \* uuid4 values handed out as file session ids
    \* API/middleware/rate_limit.py
    clients,                \* RateLimitMiddleware.clients: ip -> deque
    rate_calls,             \* RateLimitMiddleware.calls
    rate_period,            \* RateLimitMiddleware.period, in ticks
    admitted,               \* history: times of the requests let through
    rejected,               \* history: times of the requests answered 429
    \* API/core/agent_manager.py
    agent,                  \* AgentManager.agent: "None" or "MainAgent"
    is_healthy,             \* AgentManager.is_healthy
    query_count,            \* AgentManager.query_count
    error_count,            \* AgentManager.error_count
    jobs,                   \* the calls of AgentManager.query made by chat
    ended,                  \* the queries that succeeded and that failed
                            \* since the metrics were last reset
    \* agent/cyclic_multi_agent.py (_classify_query), agent/main_agent.py
    asked,                  \* query, the phrases it holds
    asked_history,          \* conversation_history
    routing,                \* what became of the query
    \* backend-chatbot/agents/response_agent.py
    format_query,           \* query, the phrases it holds
    result_count,           \* rows of agent_results['cockroachdb']['results']
    formatted,              \* the response format_response returned
    viz_results,            \* results handed to _build_visualization_block
    viz_block,              \* what _build_visualization_block returned
    \* agent/multi_agent_rag.py (SemanticAgent._get_query_embedding)
    random_state,           \* the generator behind np.random
    embedders,              \* the calls of _get_query_embedding, per thread
    original_intent         \* the dict handed to the last refine_and_retry,
                            \* as it is after the call

graphVars == <<query, intent, cycle_count, max_cycles, measurement_results,
          metadata_results, semantic_results, analysis_results,
          needs_refinement, refinement_suggestions, quality_score,
          final_response, error, pc, exec_count, calls, last_called,
          last_failed, http_status>>

storeVars == <<now, session_timeout, max_messages_per_session, sessions,
               uuid_count, message_count, requests, append_log, removed_by, last_access>>

fileVars == <<fs, lock, threads, sweeper, file_count>>

rateVars == <<clients, rate_calls, rate_period, admitted, rejected>>

managerVars == <<agent, is_healthy, query_count, error_count, jobs, ended>>

\* the components that are followed on their own further down
classifyVars == <<asked, asked_history, routing>>

formatVars == <<format_query, result_count, formatted, viz_results, viz_block>>

embedVars == <<random_state, embedders>>

refineVars == <<original_intent>>

otherVars == <<managerVars, classifyVars, formatVars, embedVars, refineVars>>

vars == <<graphVars, storeVars, fileVars, rateVars, otherVars>>

\* what a step of the orchestrator, respectively of the session store and
\* the chat handler, leaves alone
notGraph == <<storeVars, fileVars, rateVars, otherVars>>
notStore == <<graphVars, fileVars, rateVars, otherVars>>

---------------------------------------------------------------------------
(* Bounds of the model *)

\* phrases of the vocabulary a query is made of
MaxWords == 1

\* largest number of refinements one intent goes through
MaxExpansions == 101

\* largest max_cycles an orchestrator is constructed with
MaxCyclesBound == 3

\* rows a backend call returns
MaxRows == 1

\* cap of the history counter exec_count
ExecCap == 6

---------------------------------------------------------------------------
(* Queries.  A query is a set of phrases; the substring tests of the code  *)
(* ("word in query.lower()") are decided by the words each phrase holds.   *)

None == "None"

Agents == {"measurement", "metadata", "semantic"}

Vocabulary ==
    {"temperature measurements from float 7902073",
     "salinity in the arabian sea",
     "metadata", "available", "similar", "float 7902073",
     "all float", "all regions"}

\* the words of the code's keyword lists that occur in a phrase
WordsIn(p) ==
    CASE p = "temperature measurements from float 7902073"
                             -> {"temperature", "measurement"}
      [] p = "salinity in the arabian sea"
                             -> {"salinity", "arabian sea"}
      [] p = "metadata"      -> {"metadata", "data"}
      [] p = "available"     -> {"available"}
      [] p = "similar"       -> {"similar"}
      [] p = "float 7902073" -> {}
      [] p = "all float"     -> {"all float"}
      [] p = "all regions"   -> {"all regions"}
      [] p = "salinity in the bay of bengal"
                             -> {"salinity", "bay of bengal"}
      [] p = "salinity in the equatorial indian ocean"
                             -> {"salinity", "equatorial indian ocean"}
      [] p = "salinity in the southern indian ocean"
                             -> {"salinity", "southern indian ocean"}
      [] OTHER               -> {}

\* word in query.lower()
Contains(q, w) == \E p \in q.phrases : w \in WordsIn(p)

\* any(word in query.lower() for word in words)
ContainsAny(q, words) == \E w \in words : Contains(q, w)

\* a query that is not a str makes query.lower() raise
Queries ==
    {[isStr |-> TRUE, phrases |-> ps] :
        ps \in {s \in SUBSET Vocabulary : Cardinality(s) <= MaxWords}}
    \cup {[isStr |-> FALSE, phrases |-> {}]}

---------------------------------------------------------------------------
(* Intent *)

NoFilter == [present |-> FALSE, min_lat |-> 0, max_lat |-> 0,
             min_lon |-> 0, max_lon |-> 0]

\* the keys of regions, in the order of the dict
region_keys ==
    <<"arabian sea", "bay of bengal", "equatorial indian ocean",
      "southern indian ocean">>

regions ==
    [r \in {region_keys[k] : k \in DOMAIN region_keys} |->
        CASE r = "arabian sea" ->
                [present |-> TRUE, min_lat |-> 10, max_lat |-> 25,
                 min_lon |-> 55, max_lon |-> 75]
          [] r = "bay of bengal" ->
                [present |-> TRUE, min_lat |-> 10, max_lat |-> 25,
                 min_lon |-> 80, max_lon |-> 95]
          [] r = "equatorial indian ocean" ->
                [present |-> TRUE, min_lat |-> -5, max_lat |-> 5,
                 min_lon |-> 40, max_lon |-> 80]
          [] r = "southern indian ocean" ->
                [present |-> TRUE, min_lat |-> -40, max_lat |-> -20,
                 min_lon |-> 20, max_lon |-> 80]]

\* region.title()
region_title(r) ==
    CASE r = "arabian sea"             -> "Arabian Sea"
      [] r = "bay of bengal"           -> "Bay Of Bengal"
      [] r = "equatorial indian ocean" -> "Equatorial Indian Ocean"
      [] r = "southern indian ocean"   -> "Southern Indian Ocean"

\* the region the loop over regions.items() stops at
first_region(hits) ==
    region_keys[CHOOSE k \in DOMAIN region_keys :
                    /\ region_keys[k] \in hits
                    /\ \A j \in 1..(k - 1) : region_keys[j] \notin hits]

NoneIntent ==
    [isNone |-> TRUE, float_id |-> None, spatial_filter |-> NoFilter,
     region_name |-> None, needs_measurements |-> FALSE,
     needs_metadata |-> FALSE, needs_semantic |-> FALSE,
     semantic_broadened |-> FALSE, metadata_enhanced |-> FALSE]

\* re.findall(r'float (\d+)', query.lower())
float_matches(q) ==
    IF q.phrases \cap {"float 7902073",
                       "temperature measurements from float 7902073"} # {}
    THEN "7902073" ELSE None

MeasurementWords ==
    {"temperature", "salinity", "pressure", "measurement", "data", "profile"}

MetadataWords ==
    {"metadata", "instrument", "parameter", "deployment", "coverage",
     "available"}

SemanticWords ==
    {"similar", "pattern", "inversion", "anomal", "compare", "find"}

\* mutant of parse_intent_flags: the fallback that activates every agent is
\* missing
parse_intent_flags_nofallback(q) ==
    [m |-> ContainsAny(q, MeasurementWords),
     d |-> ContainsAny(q, MetadataWords),
     s |-> ContainsAny(q, SemanticWords)]

\* the needs_* flags parse_intent computes
parse_intent_flags(q) ==
    LET m == ContainsAny(q, MeasurementWords)
        d == ContainsAny(q, MetadataWords)
        s == ContainsAny(q, SemanticWords)
    IN  IF ~(m \/ d \/ s)
        THEN [m |-> TRUE, d |-> TRUE, s |-> TRUE]
        ELSE [m |-> m, d |-> d, s |-> s]

\* the intent dict parse_intent builds for a str query
parse_intent_value(q) ==
    LET hits == {r \in DOMAIN regions : Contains(q, r)}
        f    == parse_intent_flags(q)
    IN  [isNone |-> FALSE,
         float_id |-> float_matches(q),
         spatial_filter |->
            IF hits = {} THEN NoFilter ELSE regions[first_region(hits)],
         region_name |->
            IF hits = {} THEN None ELSE region_title(first_region(hits)),
         needs_measurements |-> f.m,
         needs_metadata |-> f.d,
         needs_semantic |-> f.s,
         semantic_broadened |-> FALSE,
         metadata_enhanced |-> FALSE]

EnabledAgents(i) ==
    {a \in Agents :
        \/ a = "measurement" /\ i.needs_measurements
        \/ a = "metadata" /\ i.needs_metadata
        \/ a = "semantic" /\ i.needs_semantic}

---------------------------------------------------------------------------
(* Agent results.  A result dict is a record of the keys the analyzer and  *)
(* the coordinator look at; present = FALSE is Python's None.              *)

NoResult ==
    [present |-> FALSE, error |-> FALSE, count |-> 0, statistics |-> FALSE,
     time_range |-> FALSE, spatial_coverage |-> FALSE,
     float_metadata |-> FALSE, region_metadata |-> FALSE, summary |-> FALSE,
     float_count |-> FALSE, top_matches |-> FALSE]

\* {"agent": ..., "error": str(e)}
ErrorResult == [NoResult EXCEPT !.present = TRUE, !.error = TRUE]

\* what a process() call hands back to execute_agents: a value, or an
\* exception that left the call
Returned(r) == [raised |-> FALSE, value |-> r]
Raised == [raised |-> TRUE, value |-> NoResult]

\* outcomes of the SQL backend: the call raises, or returns n rows of which
\* ids carry a platform number
SqlOut ==
    {[raise |-> TRUE, n |-> 0, ids |-> 0]} \cup
    {[raise |-> FALSE, n |-> n, ids |-> k] : n \in 0..MaxRows, k \in 0..MaxRows}

\* outcomes of the graph backend: first lookup, second lookup (made only
\* when the first found nothing), n rows of a custom query
Lookup == {"raise", "none", "found"}
GraphOut == [first : Lookup, second : Lookup, n : 1..MaxRows]

\* outcomes of the vector backend
VecOut ==
    {[raise |-> TRUE, n |-> 0]} \cup
    {[raise |-> FALSE, n |-> n] : n \in 0..MaxRows}

Min(a, b) == IF a < b THEN a ELSE b
Max(a, b) == IF a > b THEN a ELSE b

\* MeasurementAgent._handle_float_id_query
handle_float_id_query(out) ==
    IF out.raise THEN ErrorResult
    ELSE IF out.n > 0
         THEN [NoResult EXCEPT !.present = TRUE,
                               !.count = Min(out.ids, out.n),
                               !.summary = TRUE]
         ELSE ErrorResult

\* mutant of MeasurementAgent_process: the try/except around the backend call
\* is missing, so a backend exception leaves process()
MeasurementAgent_process_uncaught(q, i, out) ==
    IF ContainsAny(q, {"all float", "float id", "platform number"})
    THEN Returned(handle_float_id_query(out))
    ELSE IF i.float_id = None /\ ~i.spatial_filter.present
    THEN Returned(ErrorResult)
    ELSE IF out.raise
    THEN Raised
    ELSE IF out.n > 0
    THEN Returned([NoResult EXCEPT !.present = TRUE, !.count = out.n,
                      !.statistics = TRUE, !.time_range = TRUE,
                      !.spatial_coverage = TRUE, !.summary = TRUE])
    ELSE Returned([NoResult EXCEPT !.present = TRUE, !.summary = TRUE])

\* MeasurementAgent.process
MeasurementAgent_process(q, i, out) ==
    IF ContainsAny(q, {"all float", "float id", "platform number"})
    THEN Returned(handle_float_id_query(out))
    ELSE IF i.float_id = None /\ ~i.spatial_filter.present
    THEN Returned(ErrorResult)
    ELSE IF out.raise
    THEN Returned(ErrorResult)
    ELSE IF out.n > 0
    THEN Returned([NoResult EXCEPT !.present = TRUE, !.count = out.n,
                      !.statistics = TRUE, !.time_range = TRUE,
                      !.spatial_coverage = TRUE, !.summary = TRUE])
    ELSE Returned([NoResult EXCEPT !.present = TRUE, !.summary = TRUE])

\* MetadataAgent._handle_custom_metadata_query
handle_custom_metadata_query(out) ==
    IF out.first = "found"
    THEN [NoResult EXCEPT !.present = TRUE, !.count = out.n, !.summary = TRUE]
    ELSE ErrorResult

CustomMetadataWords ==
    {"all regions", "region list", "float count", "region hierarchy",
     "parameters measured", "deployment info", "region statistics"}

\* MetadataAgent.process
MetadataAgent_process(q, i, out) ==
    LET floatMeta  == [NoResult EXCEPT !.present = TRUE,
                          !.float_metadata = TRUE, !.summary = TRUE]
        regionMeta == [NoResult EXCEPT !.present = TRUE,
                          !.region_metadata = TRUE, !.summary = TRUE]
        notFound   == [NoResult EXCEPT !.present = TRUE, !.summary = TRUE]
        \* the region lookup, made by the first backend call left
        byRegion(l) ==
            IF i.region_name = None THEN notFound
            ELSE IF l = "raise" THEN ErrorResult
            ELSE IF l = "found" THEN regionMeta
            ELSE notFound
    IN  IF ContainsAny(q, CustomMetadataWords)
        THEN Returned(handle_custom_metadata_query(out))
        ELSE IF i.float_id # None
        THEN IF out.first = "raise" THEN Returned(ErrorResult)
             ELSE IF out.first = "found" THEN Returned(floatMeta)
             ELSE Returned(byRegion(out.second))
        ELSE Returned(byRegion(out.first))

\* SemanticAgent.process
SemanticAgent_process(q, i, out) ==
    IF out.raise THEN Returned(ErrorResult)
    ELSE IF out.n > 0
    THEN Returned([NoResult EXCEPT !.present = TRUE, !.count = out.n,
                      !.top_matches = TRUE, !.summary = TRUE])
    ELSE Returned([NoResult EXCEPT !.present = TRUE, !.summary = TRUE])

\* The outcomes a run of execute_agents can tell apart: a backend that is not
\* called, or a part of an outcome the taken path never reads, is fixed.
SqlOutcomesFor(q, i) ==
    IF ~i.needs_measurements THEN {[raise |-> TRUE, n |-> 0, ids |-> 0]}
    ELSE IF ContainsAny(q, {"all float", "float id", "platform number"})
    THEN {o \in SqlOut : o.ids <= o.n}
    ELSE IF i.float_id = None /\ ~i.spatial_filter.present
    THEN {[raise |-> TRUE, n |-> 0, ids |-> 0]}
    ELSE {o \in SqlOut : o.ids = 0}

GraphOutcomesFor(q, i) ==
    IF ~i.needs_metadata THEN {[first |-> "raise", second |-> "none", n |-> 1]}
    ELSE IF ContainsAny(q, CustomMetadataWords)
    THEN {o \in GraphOut : /\ o.second = "none"
                           /\ o.first # "found" => o.n = 1}
    ELSE IF i.float_id # None
    THEN {o \in GraphOut :
            /\ o.n = 1
            /\ (o.first # "none" \/ i.region_name = None) => o.second = "none"}
    ELSE IF i.region_name # None
    THEN {o \in GraphOut : o.n = 1 /\ o.second = "none"}
    ELSE {[first |-> "none", second |-> "none", n |-> 1]}

VecOutcomesFor(q, i) ==
    IF ~i.needs_semantic THEN {[raise |-> TRUE, n |-> 0]} ELSE VecOut

\* whether a backend or LLM call made inside MeasurementAgent.process raised
MeasurementAgent_call_raised(q, i, out) ==
    /\ out.raise
    /\ \/ ContainsAny(q, {"all float", "float id", "platform number"})
       \/ i.float_id # None
       \/ i.spatial_filter.present

\* whether a backend or LLM call made inside MetadataAgent.process raised
MetadataAgent_call_raised(q, i, out) ==
    IF ContainsAny(q, CustomMetadataWords) THEN out.first = "raise"
    ELSE IF i.float_id # None
    THEN \/ out.first = "raise"
         \/ out.first = "none" /\ i.region_name # None /\ out.second = "raise"
    ELSE i.region_name # None /\ out.first = "raise"

\* whether the backend call made inside SemanticAgent.process raised
SemanticAgent_call_raised(q, i, out) == out.raise

---------------------------------------------------------------------------
(* AnalysisAgent *)

\* mutant of assess_measurement_quality: the score is halved in the cycles
\* after the first
assess_measurement_quality_by_cycle(r) ==
    IF ~r.present \/ r.error THEN 0
    ELSE Min((IF r.count > 0 THEN 24 ELSE 0)
             + (IF r.statistics THEN 18 ELSE 0)
             + (IF r.time_range THEN 12 ELSE 0)
             + (IF r.spatial_coverage THEN 6 ELSE 0), 60)
         \div (IF cycle_count > 0 THEN 2 ELSE 1)

\* AnalysisAgent._assess_measurement_quality, in sixtieths
assess_measurement_quality(r) ==
    IF ~r.present \/ r.error THEN 0
    ELSE Min((IF r.count > 0 THEN 24 ELSE 0)
             + (IF r.statistics THEN 18 ELSE 0)
             + (IF r.time_range THEN 12 ELSE 0)
             + (IF r.spatial_coverage THEN 6 ELSE 0), 60)

\* AnalysisAgent._assess_metadata_quality, in sixtieths
assess_metadata_quality(r) ==
    IF ~r.present \/ r.error THEN 0
    ELSE Min((IF r.float_metadata \/ r.region_metadata THEN 30 ELSE 0)
             + (IF r.summary THEN 18 ELSE 0)
             + (IF r.float_count THEN 12 ELSE 0), 60)

\* AnalysisAgent._assess_semantic_quality, in sixtieths
assess_semantic_quality(r) ==
    IF ~r.present \/ r.error THEN 0
    ELSE Min((IF r.count > 0 THEN 36 ELSE 0)
             + (IF r.top_matches THEN 24 ELSE 0), 60)

\* the agents the analyzer takes the query to ask for
DemandedAgents(q) ==
    {a \in Agents :
        \/ a = "measurement" /\ ContainsAny(q, MeasurementWords)
        \/ a = "metadata" /\
              ContainsAny(q, {"metadata", "instrument", "parameter",
                              "deployment", "coverage"})
        \/ a = "semantic" /\
              ContainsAny(q, {"similar", "pattern", "compare", "find",
                              "anomal"})}

\* mutant of assess_completeness: the answered agents are counted against
\* all three agents, not against the demanded ones
assess_completeness_of_three(q, m, d, s) ==
    LET res(a)   == IF a = "measurement" THEN m
                    ELSE IF a = "metadata" THEN d ELSE s
        needed   == DemandedAgents(q)
        answered == {a \in needed : res(a).present /\ ~res(a).error}
    IN  (60 * Cardinality(answered)) \div 3

\* AnalysisAgent._assess_completeness, in sixtieths
assess_completeness(q, m, d, s) ==
    LET res(a)   == IF a = "measurement" THEN m
                    ELSE IF a = "metadata" THEN d ELSE s
        needed   == DemandedAgents(q)
        answered == {a \in needed : res(a).present /\ ~res(a).error}
    IN  (60 * Cardinality(answered)) \div Max(Cardinality(needed), 1)

SuggestExpand   == "Try expanding spatial or temporal search criteria for measurements"
SuggestRetry    == "Retry measurement query with different parameters"
SuggestMetadata == "Query additional metadata sources or expand search criteria"
SuggestSemantic == "Broaden semantic search terms or adjust similarity thresholds"
SuggestSources  == "Query additional data sources to provide more comprehensive analysis"
SuggestError    == "Error in analysis - retry with different parameters"

\* AnalysisAgent._generate_refinement_suggestions
generate_refinement_suggestions(metrics, m, d, s) ==
    (IF metrics.measurement_quality < 30
     THEN IF ~m.present \/ m.count = 0 THEN <<SuggestExpand>>
          ELSE IF m.error THEN <<SuggestRetry>> ELSE <<>>
     ELSE <<>>)
    \o (IF metrics.metadata_quality < 30 /\ (~d.present \/ d.error)
        THEN <<SuggestMetadata>> ELSE <<>>)
    \o (IF metrics.semantic_quality < 30 /\ (~s.present \/ s.count = 0)
        THEN <<SuggestSemantic>> ELSE <<>>)
    \o (IF metrics.completeness < 42 THEN <<SuggestSources>> ELSE <<>>)

\* overall < 0.7 of the mean of four sub-scores, in 240ths
QualityGate == 168

NoAnalysis ==
    [present |-> FALSE, error |-> FALSE,
     quality_metrics |-> [measurement_quality |-> 0, metadata_quality |-> 0,
                          semantic_quality |-> 0, completeness |-> 0],
     overall_quality |-> 0, needs_refinement |-> FALSE,
     refinement_suggestions |-> <<>>]

\* mutant of analyze_results: needs_refinement looks at the overall quality
\* alone
analyze_results_quality_only(q, m, d, s) ==
    IF ~q.isStr
    THEN [NoAnalysis EXCEPT !.present = TRUE, !.error = TRUE,
                            !.needs_refinement = TRUE,
                            !.refinement_suggestions = <<SuggestError>>]
    ELSE
    LET metrics == [measurement_quality |-> assess_measurement_quality(m),
                    metadata_quality |-> assess_metadata_quality(d),
                    semantic_quality |-> assess_semantic_quality(s),
                    completeness |-> assess_completeness(q, m, d, s)]
        overall == metrics.measurement_quality + metrics.metadata_quality
                   + metrics.semantic_quality + metrics.completeness
        suggestions == generate_refinement_suggestions(metrics, m, d, s)
    IN  [present |-> TRUE, error |-> FALSE,
         quality_metrics |-> metrics,
         overall_quality |-> overall,
         needs_refinement |-> (overall < QualityGate),
         refinement_suggestions |-> suggestions]

\* AnalysisAgent.analyze_results
analyze_results(q, m, d, s) ==
    IF ~q.isStr
    THEN [NoAnalysis EXCEPT !.present = TRUE, !.error = TRUE,
                            !.needs_refinement = TRUE,
                            !.refinement_suggestions = <<SuggestError>>]
    ELSE
    LET metrics == [measurement_quality |-> assess_measurement_quality(m),
                    metadata_quality |-> assess_metadata_quality(d),
                    semantic_quality |-> assess_semantic_quality(s),
                    completeness |-> assess_completeness(q, m, d, s)]
        overall == metrics.measurement_quality + metrics.metadata_quality
                   + metrics.semantic_quality + metrics.completeness
        suggestions == generate_refinement_suggestions(metrics, m, d, s)
    IN  [present |-> TRUE, error |-> FALSE,
         quality_metrics |-> metrics,
         overall_quality |-> overall,
         needs_refinement |-> (overall < QualityGate \/ Len(suggestions) > 0),
         refinement_suggestions |-> suggestions]

---------------------------------------------------------------------------
(* RefinementAgent *)

\* the words of refine_and_retry's tests that occur in suggestion.lower()
SuggestionWords(sg) ==
    CASE sg = SuggestExpand   -> {"expand", "spatial", "temporal"}
      [] sg = SuggestRetry    -> {}
      [] sg = SuggestMetadata -> {"expand", "additional", "metadata"}
      [] sg = SuggestSemantic -> {"broaden", "semantic"}
      [] sg = SuggestSources  -> {"additional"}
      [] OTHER                -> {}

\* mutant of expand_spatial_criteria: the box grows without the clamps
expand_spatial_criteria_unclamped(i) ==
    IF i.spatial_filter.present
    THEN [i EXCEPT !.spatial_filter =
            [present |-> TRUE,
             min_lat |-> i.spatial_filter.min_lat - 2,
             max_lat |-> i.spatial_filter.max_lat + 2,
             min_lon |-> i.spatial_filter.min_lon - 2,
             max_lon |-> i.spatial_filter.max_lon + 2]]
    ELSE i

\* RefinementAgent._expand_spatial_criteria
expand_spatial_criteria(i) ==
    IF i.spatial_filter.present
    THEN [i EXCEPT !.spatial_filter =
            [present |-> TRUE,
             min_lat |-> Max(i.spatial_filter.min_lat - 2, -90),
             max_lat |-> Min(i.spatial_filter.max_lat + 2, 90),
             min_lon |-> Max(i.spatial_filter.min_lon - 2, -180),
             max_lon |-> Min(i.spatial_filter.max_lon + 2, 180)]]
    ELSE i

\* RefinementAgent._expand_temporal_criteria
expand_temporal_criteria(i) == i

\* RefinementAgent._broaden_semantic_search
broaden_semantic_search(i) == [i EXCEPT !.semantic_broadened = TRUE]

\* mutant of enhance_metadata_search: the enhancement also switches the
\* metadata agent on
enhance_metadata_search_enabling(i) ==
    [i EXCEPT !.metadata_enhanced = TRUE, !.needs_metadata = TRUE]

\* RefinementAgent._enhance_metadata_search
enhance_metadata_search(i) == [i EXCEPT !.metadata_enhanced = TRUE]

\* the name of the refinement refine_and_retry's if/elif chain picks for a
\* suggestion, "none" when no test of the chain matches
refinement_of(sg) ==
    LET w == SuggestionWords(sg)
    IN  IF {"expand", "spatial"} \subseteq w THEN "expand_spatial"
        ELSE IF {"expand", "temporal"} \subseteq w THEN "expand_temporal"
        ELSE IF {"broaden", "semantic"} \subseteq w THEN "broaden_semantic"
        ELSE IF {"additional", "metadata"} \subseteq w
        THEN "enhance_metadata"
        ELSE "none"

\* the branch of refine_and_retry's loop body a suggestion takes
apply_suggestion(i, sg) ==
    LET w == SuggestionWords(sg)
    IN  IF {"expand", "spatial"} \subseteq w THEN expand_spatial_criteria(i)
        ELSE IF {"expand", "temporal"} \subseteq w
        THEN expand_temporal_criteria(i)
        ELSE IF {"broaden", "semantic"} \subseteq w
        THEN broaden_semantic_search(i)
        ELSE IF {"additional", "metadata"} \subseteq w
        THEN enhance_metadata_search(i)
        ELSE i

RECURSIVE apply_suggestions(_, _)
apply_suggestions(i, sgs) ==
    IF sgs = <<>> THEN i
    ELSE apply_suggestions(apply_suggestion(i, Head(sgs)), Tail(sgs))

\* RefinementAgent.refine_and_retry: the refined_intent of the reply; the
\* copy() of a None intent raises and the original intent is handed back
refine_and_retry(passed, suggestions) ==
    IF passed.isNone THEN passed
    ELSE apply_suggestions(passed, suggestions)

\* the dict handed to refine_and_retry, after the call: dict.copy() is
\* shallow, so the keys the refinements set on the copy (semantic_broadened,
\* metadata_enhanced) stay off the original, while the nested spatial_filter
\* dict is one object in both and _expand_spatial_criteria assigns into it
passed_intent_after(passed, suggestions) ==
    IF passed.isNone THEN passed
    ELSE [passed EXCEPT
            !.spatial_filter =
                refine_and_retry(passed, suggestions).spatial_filter]

---------------------------------------------------------------------------
(* The graph of _create_cyclic_graph *)

\* mutant of should_refine: the cycle budget is not consulted
should_refine_unbounded(err, cc, mc, nr) ==
    IF err # None THEN "synthesize"
    ELSE IF nr THEN "refine" ELSE "synthesize"

\* mutant of should_refine: the cycle budget is compared with <=
should_refine_offbyone(err, cc, mc, nr) ==
    IF err # None THEN "synthesize"
    ELSE IF nr /\ cc <= mc THEN "refine" ELSE "synthesize"

\* mutant of should_refine: a recorded error does not force synthesis
should_refine_ignoring_error(err, cc, mc, nr) ==
    IF nr /\ cc < mc THEN "refine" ELSE "synthesize"

\* should_refine
should_refine(err, cc, mc, nr) ==
    IF err # None THEN "synthesize"
    ELSE IF nr /\ cc < mc THEN "refine" ELSE "synthesize"

\* the conditional edge out of analyze_quality
edge_after_analyze(branch) ==
    IF branch = "refine" THEN "refine_intent" ELSE "synthesize_response"

\* mutant of next_cycle_count: the counter is advanced twice
next_cycle_count_twice(c) == c + 2

\* refine_intent: state["cycle_count"] + 1
next_cycle_count(c) == c + 1

\* the in-memory session store before any session is created
SessionsIdle ==
    /\ now = 0
    /\ session_timeout = 1
    /\ max_messages_per_session = 1
    /\ sessions = <<>>
    /\ uuid_count = 0
    /\ message_count = 0
    /\ requests = <<>>
    /\ append_log = <<>>
    /\ removed_by = <<>>
    /\ last_access = <<>>

\* the file-based session store before any call
FilesIdle ==
    /\ fs = <<>>
    /\ lock = 0
    /\ threads = <<>>
    /\ sweeper = [pc |-> "idle", expired |-> {}]
    /\ file_count = 0

\* the rate limiter before any request
LimiterIdle ==
    /\ clients = <<>>
    /\ rate_calls = 0
    /\ rate_period = 1
    /\ admitted = <<>>
    /\ rejected = <<>>

\* AgentManager.__init__, no call of query made
ManagerIdle ==
    /\ agent = "None"
    /\ is_healthy = FALSE
    /\ query_count = 0
    /\ error_count = 0
    /\ jobs = <<>>
    /\ ended = [succeeded |-> 0, failed |-> 0]

\* nothing classified yet
NotClassified == [by |-> None, needs_multi_agent |-> FALSE, response |-> None]

ClassifierIdle ==
    /\ asked = {}
    /\ asked_history = <<>>
    /\ routing = NotClassified

\* a formatted response: the branch that built it, the rows its table or
\* sample shows, and the row count it states (NoCount when it states none)
NoCount == -1

Response(branch, rows, count) ==
    [branch |-> branch, rows |-> rows, count |-> count]

NotFormatted == Response(None, <<>>, NoCount)

\* a list of rows: the keys of its rows and their number
Rows(fields, n) == [fields |-> fields, rows |-> n]

\* what _build_visualization_block returns: the charts of the payload, none
\* for the empty string
Block(built, charts) == [built |-> built, visualizations |-> charts]

\* no call of _build_visualization_block is followed
VizIdle ==
    /\ viz_results = Rows({}, 0)
    /\ viz_block = Block(FALSE, <<>>)

FormatterIdle ==
    /\ format_query = {}
    /\ result_count = 0
    /\ formatted = NotFormatted
    /\ VizIdle

EmbedderIdle ==
    /\ random_state = [seed |-> 0, draws |-> 0]
    /\ embedders = <<>>

\* no refine_and_retry call has been followed
RefinerIdle == original_intent = NoneIntent

OthersIdle ==
    /\ ManagerIdle
    /\ ClassifierIdle
    /\ FormatterIdle
    /\ EmbedderIdle
    /\ RefinerIdle

\* the services around the graph while an invocation of the graph is
\* followed on its own
StoreIdle == SessionsIdle /\ FilesIdle /\ LimiterIdle /\ OthersIdle

\* initial_state of _execute_full_analysis
Init ==
    /\ query \in Queries
    /\ max_cycles \in 0..MaxCyclesBound
    /\ intent = NoneIntent
    /\ cycle_count = 0
    /\ measurement_results = NoResult
    /\ metadata_results = NoResult
    /\ semantic_results = NoResult
    /\ analysis_results = NoAnalysis
    /\ needs_refinement = FALSE
    /\ refinement_suggestions = <<>>
    /\ quality_score = 0
    /\ final_response = None
    /\ error = None
    /\ pc = "parse_intent"
    /\ exec_count = 0
    /\ calls = [a \in Agents |-> 0]
    /\ last_called = {}
    /\ last_failed = {}
    /\ http_status = 0
    /\ StoreIdle

\* node parse_intent
parse_intent ==
    /\ pc = "parse_intent"
    /\ IF query.isStr
       THEN /\ intent' = parse_intent_value(query)
            /\ cycle_count' = 0
            /\ needs_refinement' = FALSE
            /\ quality_score' = 0
            /\ error' = error
       ELSE /\ error' = "'NoneType' object has no attribute 'lower'"
            /\ UNCHANGED <<intent, cycle_count, needs_refinement,
                           quality_score>>
    /\ pc' = "execute_agents"
    /\ UNCHANGED <<query, max_cycles, measurement_results, metadata_results,
                   semantic_results, analysis_results,
                   refinement_suggestions, final_response, exec_count, calls,
                   last_called, last_failed, http_status>>
    /\ UNCHANGED notGraph

\* node execute_agents
execute_agents ==
    /\ pc = "execute_agents"
    /\ exec_count < ExecCap
    /\ \E sql \in SqlOutcomesFor(query, intent),
          graph \in GraphOutcomesFor(query, intent),
          vec \in VecOutcomesFor(query, intent) :
        LET subscriptable == ~intent.isNone
            runM == subscriptable /\ intent.needs_measurements
            pm   == MeasurementAgent_process(query, intent, sql)
            excM == runM /\ pm.raised
            runD == subscriptable /\ ~excM /\ intent.needs_metadata
            pd   == MetadataAgent_process(query, intent, graph)
            excD == runD /\ pd.raised
            runS == subscriptable /\ ~excM /\ ~excD /\ intent.needs_semantic
            ps   == SemanticAgent_process(query, intent, vec)
            excS == runS /\ ps.raised
        IN  /\ measurement_results' =
                IF runM /\ ~excM THEN pm.value ELSE measurement_results
            /\ metadata_results' =
                IF runD /\ ~excD THEN pd.value ELSE metadata_results
            /\ semantic_results' =
                IF runS /\ ~excS THEN ps.value ELSE semantic_results
            /\ error' =
                IF ~subscriptable
                THEN "'NoneType' object is not subscriptable"
                ELSE IF excM \/ excD \/ excS THEN "agent exception"
                ELSE error
            /\ calls' =
                [a \in Agents |->
                    calls[a] + (IF \/ a = "measurement" /\ runM
                                   \/ a = "metadata" /\ runD
                                   \/ a = "semantic" /\ runS
                                THEN 1 ELSE 0)]
            /\ last_called' =
                {a \in Agents : \/ a = "measurement" /\ runM
                                \/ a = "metadata" /\ runD
                                \/ a = "semantic" /\ runS}
            /\ last_failed' =
                {a \in Agents :
                    \/ a = "measurement" /\ runM
                         /\ MeasurementAgent_call_raised(query, intent, sql)
                    \/ a = "metadata" /\ runD
                         /\ MetadataAgent_call_raised(query, intent, graph)
                    \/ a = "semantic" /\ runS
                         /\ SemanticAgent_call_raised(query, intent, vec)}
    /\ exec_count' = exec_count + 1
    /\ pc' = "analyze_quality"
    /\ UNCHANGED <<query, intent, cycle_count, max_cycles, analysis_results,
                   needs_refinement, refinement_suggestions, quality_score,
                   final_response, http_status>>
    /\ UNCHANGED notGraph

\* node analyze_quality and the conditional edge that leaves it
analyze_quality ==
    /\ pc = "analyze_quality"
    /\ LET analysis == analyze_results(query, measurement_results,
                                       metadata_results, semantic_results)
       IN  /\ analysis_results' = analysis
           /\ quality_score' = analysis.overall_quality
           /\ needs_refinement' = analysis.needs_refinement
           /\ refinement_suggestions' = analysis.refinement_suggestions
           /\ pc' = edge_after_analyze(
                        should_refine(error, cycle_count, max_cycles,
                                      analysis.needs_refinement))
    /\ UNCHANGED <<query, intent, cycle_count, max_cycles,
                   measurement_results, metadata_results, semantic_results,
                   final_response, error, exec_count, calls, last_called, last_failed,
                   http_status>>
    /\ UNCHANGED notGraph

\* node refine_intent
refine_intent ==
    /\ pc = "refine_intent"
    /\ intent' = refine_and_retry(intent, refinement_suggestions)
    /\ cycle_count' = next_cycle_count(cycle_count)
    /\ pc' = "execute_agents"
    /\ UNCHANGED <<query, max_cycles, measurement_results, metadata_results,
                   semantic_results, analysis_results, needs_refinement,
                   refinement_suggestions, quality_score, final_response,
                   error, exec_count, calls, last_called, last_failed, http_status>>
    /\ UNCHANGED notGraph

\* node synthesize_response; the coordinator's LLM call answers or fails
synthesize_response ==
    /\ pc = "synthesize_response"
    /\ \E llm_ok \in BOOLEAN :
        final_response' =
            IF error # None THEN "Error: "
            ELSE IF llm_ok THEN "synthesis"
            ELSE "Error synthesizing results: "
    /\ pc' = "END"
    /\ UNCHANGED <<query, intent, cycle_count, max_cycles,
                   measurement_results, metadata_results, semantic_results,
                   analysis_results, needs_refinement, refinement_suggestions,
                   quality_score, error, exec_count, calls, last_called, last_failed,
                   http_status>>
    /\ UNCHANGED notGraph

\* the status chat answers with once AgentManager.query is over: the
\* response string of the agent, unless wait_for ran into the deadline
chat_status(timed_out) == IF timed_out THEN 408 ELSE 200

\* AgentManager.query awaiting the invocation, and chat's reply
chat ==
    /\ pc = "END"
    /\ http_status = 0
    /\ \E timed_out \in BOOLEAN : http_status' = chat_status(timed_out)
    /\ UNCHANGED <<query, intent, cycle_count, max_cycles,
                   measurement_results, metadata_results, semantic_results,
                   analysis_results, needs_refinement, refinement_suggestions,
                   quality_score, final_response, error, pc, exec_count,
                   calls, last_called, last_failed>>
    /\ UNCHANGED notGraph

Next ==
    \/ parse_intent
    \/ execute_agents
    \/ analyze_quality
    \/ refine_intent
    \/ synthesize_response
    \/ chat

Spec == Init /\ [][Next]_vars

\* The invocations whose termination is checked: the queries of at most one
\* phrase (they enable every set of agents parse_intent can produce from one
\* keyword family or from none) and the query that is not a str.
LiveInit == Init /\ Cardinality(query.phrases) <= 1

\* the graph runtime runs the next node whenever there is one, and each
\* agent, LLM and backend call returns
LiveSpec == LiveInit /\ [][Next]_vars /\ WF_vars(Next)

---------------------------------------------------------------------------
(* Session store: API/core/session_manager.py *)

\* ticks the clock is followed for
MaxTime == 2

\* the uuid4 values create_session draws, in the order it draws them
SessionIds == {1, 2}

\* messages appended in one run
MaxAppends == 2

\* the configurations followed: session_timeout in ticks, and
\* max_messages_per_session
SessionTimeouts == {1}
MessageLimits == {0, 1, 2}

\* message contents: a comparison naming a parameter and two regions, and a
\* message naming twenty-one floats and the first of them again
ContentCompare == "compare temperature in the bay of bengal and the arabian sea"
ContentFloats  == "float 1 float 2 ... float 21 float 1"
Contents == {ContentCompare, ContentFloats}

\* the regions and the parameters _update_session_context looks for, in the
\* order of its lists
context_regions ==
    <<"arabian sea", "bay of bengal", "indian ocean",
      "equatorial indian ocean", "southern indian ocean">>
context_parameters == <<"temperature", "salinity", "pressure", "depth">>

\* the words of a content the substring tests of _update_session_context
\* can find
ContentWords(c) ==
    IF c = ContentCompare
    THEN {"compare", "temperature", "bay of bengal", "arabian sea"}
    ELSE {"float"}

\* re.findall(r'float (\d+)', content_lower), in text order
FloatIdsIn(c) ==
    IF c = ContentFloats THEN [i \in 1..22 |-> IF i = 22 THEN 1 ELSE i]
    ELSE <<>>

Range(f) == {f[i] : i \in DOMAIN f}

\* for x in candidates: if found(x) and x not in lst: lst.append(x)
RECURSIVE AppendNew(_, _, _, _)
AppendNew(lst, candidates, found, i) ==
    IF i > Len(candidates) THEN lst
    ELSE AppendNew(IF candidates[i] \in found /\ candidates[i] \notin Range(lst)
                   THEN Append(lst, candidates[i]) ELSE lst,
                   candidates, found, i + 1)

\* list[-n:] of Python, for n >= 0: the whole list when n = 0
LastN(lst, n) ==
    IF n = 0 \/ n >= Len(lst) THEN lst
    ELSE SubSeq(lst, Len(lst) - n + 1, Len(lst))

\* the previous_queries entries kept
PreviousQueriesKept == 20

\* the query type _update_session_context records for a user message
query_type(c) ==
    LET w == ContentWords(c)
    IN  IF w \cap {"compare", "comparison", "versus", "vs"} # {}
        THEN "comparative"
        ELSE IF w \cap {"pattern", "similar", "anomal", "unusual"} # {}
        THEN "pattern_analysis"
        ELSE IF w \cap {"metadata", "instrument", "deployment"} # {}
        THEN "metadata"
        ELSE IF w \cap {"measurement", "data", "temperature", "salinity"} # {}
        THEN "measurement"
        ELSE "unknown"

\* mutant of update_session_context: what a message mentions is appended
\* whether or not the list holds it
update_session_context_duplicating(session, message) ==
    LET c == message.content
        q == Append(session.previous_queries, query_type(c))
    IN  [session EXCEPT
            !.regions_discussed =
                @ \o SelectSeq(context_regions,
                               LAMBDA x : x \in ContentWords(c)),
            !.floats_analyzed = @ \o FloatIdsIn(c),
            !.parameters_of_interest =
                @ \o SelectSeq(context_parameters,
                               LAMBDA x : x \in ContentWords(c)),
            !.previous_queries =
                IF message.role # "user" THEN @
                ELSE IF Len(q) > PreviousQueriesKept
                     THEN LastN(q, PreviousQueriesKept)
                     ELSE q]

\* _update_session_context(session, message)
update_session_context(session, message) ==
    LET c == message.content
        q == Append(session.previous_queries, query_type(c))
    IN  [session EXCEPT
            !.regions_discussed =
                AppendNew(@, context_regions, ContentWords(c), 1),
            !.floats_analyzed =
                AppendNew(@, FloatIdsIn(c), Range(FloatIdsIn(c)), 1),
            !.parameters_of_interest =
                AppendNew(@, context_parameters, ContentWords(c), 1),
            !.previous_queries =
                IF message.role # "user" THEN @
                ELSE IF Len(q) > PreviousQueriesKept
                     THEN LastN(q, PreviousQueriesKept)
                     ELSE q]

\* ConversationSession as create_session builds it; created_at and the
\* entries of user_preferences and analysis_preferences are not followed
NewSession(t) ==
    [last_activity |-> t, messages |-> <<>>,
     regions_discussed |-> <<>>, floats_analyzed |-> <<>>,
     parameters_of_interest |-> <<>>, previous_queries |-> <<>>]

\* the mapping S with id bound to session, and with id removed
Bind(S, id, session) ==
    [x \in DOMAIN S \cup {id} |-> IF x = id THEN session ELSE S[x]]
Unbind(S, id) == [x \in DOMAIN S \ {id} |-> S[x]]

\* mutant of is_session_expired: a session expires as soon as it has been
\* idle for session_timeout
is_session_expired_early(session, t) ==
    t - session.last_activity >= session_timeout

\* _is_session_expired, at time t
is_session_expired(session, t) ==
    t - session.last_activity > session_timeout

\* delete_session: the mapping afterwards and the value returned
SessionManager_delete_session(S, id) ==
    IF id \in DOMAIN S THEN [store |-> Unbind(S, id), ret |-> TRUE]
    ELSE [store |-> S, ret |-> FALSE]

\* mutant of SessionManager_get_session: an expired session is reported
\* missing but stays in the mapping
SessionManager_get_session_keeping(S, t, id) ==
    IF id \notin DOMAIN S THEN [store |-> S, ret |-> FALSE]
    ELSE IF is_session_expired(S[id], t) THEN [store |-> S, ret |-> FALSE]
    ELSE [store |-> [S EXCEPT ![id].last_activity = t], ret |-> TRUE]

\* mutant of SessionManager_get_session: the session is returned and its
\* last_activity is left as it was
SessionManager_get_session_stale(S, t, id) ==
    IF id \notin DOMAIN S THEN [store |-> S, ret |-> FALSE]
    ELSE IF is_session_expired(S[id], t)
         THEN [store |-> SessionManager_delete_session(S, id).store,
               ret |-> FALSE]
    ELSE [store |-> S, ret |-> TRUE]

\* get_session at time t: the mapping afterwards, and whether a session was
\* returned
SessionManager_get_session(S, t, id) ==
    IF id \notin DOMAIN S THEN [store |-> S, ret |-> FALSE]
    ELSE IF is_session_expired(S[id], t)
         THEN [store |-> SessionManager_delete_session(S, id).store,
               ret |-> FALSE]
    ELSE [store |-> [S EXCEPT ![id].last_activity = t], ret |-> TRUE]

\* session.messages once the history limit of add_message is applied
limit_history(messages, max) ==
    IF Len(messages) > max THEN LastN(messages, max) ELSE messages

\* add_message at time t; message is the ConversationMessage it would build
SessionManager_add_message(S, t, id, message) ==
    LET got == SessionManager_get_session(S, t, id)
    IN  IF ~got.ret THEN [store |-> got.store, ret |-> FALSE]
        ELSE LET s1 == [got.store[id] EXCEPT
                            !.messages = Append(@, message),
                            !.last_activity = t]
                 s2 == update_session_context(s1, message)
                 s3 == [s2 EXCEPT
                            !.messages =
                                limit_history(@, max_messages_per_session)]
             IN  [store |-> [got.store EXCEPT ![id] = s3], ret |-> TRUE]

\* get_conversation_history at time t: ret is the list returned
SessionManager_get_conversation_history(S, t, id, limit) ==
    LET got == SessionManager_get_session(S, t, id)
    IN  IF ~got.ret THEN [store |-> got.store, found |-> FALSE, ret |-> <<>>]
        ELSE [store |-> got.store, found |-> TRUE,
              ret |-> IF limit # 0
                      THEN LastN(got.store[id].messages, limit)
                      ELSE got.store[id].messages]

\* update_user_preferences at time t
SessionManager_update_user_preferences(S, t, id) ==
    LET got == SessionManager_get_session(S, t, id)
    IN  IF ~got.ret THEN [store |-> got.store, ret |-> FALSE]
        ELSE [store |-> [got.store EXCEPT ![id].last_activity = t],
              ret |-> TRUE]

\* mutant of SessionManager_cleanup_expired_sessions: the pass removes the
\* sessions that have been idle at all
SessionManager_cleanup_idle_sessions(S, t) ==
    [x \in {id \in DOMAIN S : S[id].last_activity = t} |-> S[x]]

\* cleanup_expired_sessions at time t: the mapping afterwards
SessionManager_cleanup_expired_sessions(S, t) ==
    [x \in {id \in DOMAIN S : ~is_session_expired(S[id], t)} |-> S[x]]

\* get_session_stats at time t
SessionManager_get_session_stats(S, t) ==
    LET active == {id \in DOMAIN S : ~is_session_expired(S[id], t)}
    IN  [total_sessions |-> Cardinality(DOMAIN S),
         active_sessions |-> Cardinality(active)]

\* the orchestrator while the session store is followed on its own
GraphIdle ==
    /\ query = [isStr |-> FALSE, phrases |-> {}]
    /\ max_cycles = 0
    /\ intent = NoneIntent
    /\ cycle_count = 0
    /\ measurement_results = NoResult
    /\ metadata_results = NoResult
    /\ semantic_results = NoResult
    /\ analysis_results = NoAnalysis
    /\ needs_refinement = FALSE
    /\ refinement_suggestions = <<>>
    /\ quality_score = 0
    /\ final_response = None
    /\ error = None
    /\ pc = "idle"
    /\ exec_count = 0
    /\ calls = [a \in Agents |-> 0]
    /\ last_called = {}
    /\ last_failed = {}
    /\ http_status = 0

\* the ids a caller can name: those handed out so far, and 0, never handed out
KnownIds == 0..uuid_count

\* removed_by once the mapping went from S to T in a step of kind op
Removed(S, T, op) ==
    [x \in DOMAIN removed_by \cup (DOMAIN S \ DOMAIN T) |->
        IF x \in DOMAIN S \ DOMAIN T THEN op ELSE removed_by[x]]

\* last_access once a call naming id has, or has not, found its session and
\* left the mapping T
Accessed(T, id, ok) ==
    [x \in DOMAIN T |-> IF x = id /\ ok THEN now ELSE last_access[x]]

\* SessionManager.__init__, with the configuration of main.py
StoreInit ==
    /\ now = 0
    /\ session_timeout \in SessionTimeouts
    /\ max_messages_per_session \in MessageLimits
    /\ sessions = <<>>
    /\ uuid_count = 0
    /\ message_count = 0
    /\ requests = <<>>
    /\ append_log = <<>>
    /\ removed_by = <<>>
    /\ last_access = <<>>
    /\ FilesIdle
    /\ LimiterIdle
    /\ GraphIdle
    /\ OthersIdle

\* create_session
create_session ==
    /\ uuid_count + 1 \in SessionIds
    /\ uuid_count' = uuid_count + 1
    /\ sessions' = Bind(sessions, uuid_count + 1, NewSession(now))
    /\ append_log' = Bind(append_log, uuid_count + 1, <<>>)
    /\ last_access' = Bind(last_access, uuid_count + 1, now)
    /\ UNCHANGED <<now, session_timeout, max_messages_per_session,
                   message_count, requests, removed_by>>
    /\ UNCHANGED notStore

\* get_session
get_session ==
    /\ \E id \in KnownIds :
        LET r == SessionManager_get_session(sessions, now, id)
        IN  /\ sessions' = r.store
            /\ removed_by' = Removed(sessions, r.store, "get_session")
            /\ last_access' = Accessed(r.store, id, r.ret)
    /\ UNCHANGED <<now, session_timeout, max_messages_per_session,
                   uuid_count, message_count, requests, append_log>>
    /\ UNCHANGED notStore

\* add_message
add_message ==
    /\ message_count < MaxAppends
    /\ \E id \in KnownIds, role \in {"user", "assistant"}, content \in Contents :
        LET message == [id |-> IF id \in DOMAIN append_log
                               THEN Len(append_log[id]) + 1 ELSE 0,
                        role |-> role, content |-> content, request |-> 0]
            r == SessionManager_add_message(sessions, now, id, message)
        IN  /\ sessions' = r.store
            /\ message_count' = IF r.ret THEN message_count + 1
                                ELSE message_count
            /\ append_log' = IF r.ret
                             THEN [append_log EXCEPT ![id] = Append(@, message)]
                             ELSE append_log
            /\ removed_by' = Removed(sessions, r.store, "get_session")
            /\ last_access' = Accessed(r.store, id, r.ret)
    /\ UNCHANGED <<now, session_timeout, max_messages_per_session,
                   uuid_count, requests>>
    /\ UNCHANGED notStore

\* get_conversation_history, without a limit (0) or with one
get_conversation_history ==
    /\ \E id \in KnownIds, limit \in 0..1 :
        LET r == SessionManager_get_conversation_history(sessions, now, id,
                                                         limit)
        IN  /\ sessions' = r.store
            /\ removed_by' = Removed(sessions, r.store, "get_session")
            /\ last_access' = Accessed(r.store, id, r.found)
    /\ UNCHANGED <<now, session_timeout, max_messages_per_session,
                   uuid_count, message_count, requests, append_log>>
    /\ UNCHANGED notStore

\* get_session_context
get_session_context ==
    /\ \E id \in KnownIds :
        LET r == SessionManager_get_session(sessions, now, id)
        IN  /\ sessions' = r.store
            /\ removed_by' = Removed(sessions, r.store, "get_session")
            /\ last_access' = Accessed(r.store, id, r.ret)
    /\ UNCHANGED <<now, session_timeout, max_messages_per_session,
                   uuid_count, message_count, requests, append_log>>
    /\ UNCHANGED notStore

\* update_user_preferences
update_user_preferences ==
    /\ \E id \in KnownIds :
        LET r == SessionManager_update_user_preferences(sessions, now, id)
        IN  /\ sessions' = r.store
            /\ removed_by' = Removed(sessions, r.store, "get_session")
            /\ last_access' = Accessed(r.store, id, r.ret)
    /\ UNCHANGED <<now, session_timeout, max_messages_per_session,
                   uuid_count, message_count, requests, append_log>>
    /\ UNCHANGED notStore

\* delete_session
delete_session ==
    /\ \E id \in KnownIds :
        LET r == SessionManager_delete_session(sessions, id)
        IN  /\ sessions' = r.store
            /\ removed_by' = Removed(sessions, r.store, "delete_session")
            /\ last_access' = Accessed(r.store, id, FALSE)
    /\ UNCHANGED <<now, session_timeout, max_messages_per_session,
                   uuid_count, message_count, requests, append_log>>
    /\ UNCHANGED notStore

\* one pass of the cleanup task
cleanup_expired_sessions ==
    /\ sessions' = SessionManager_cleanup_expired_sessions(sessions, now)
    /\ removed_by' = Removed(sessions, sessions', "cleanup_expired_sessions")
    /\ last_access' = Accessed(sessions', 0, FALSE)
    /\ UNCHANGED <<now, session_timeout, max_messages_per_session,
                   uuid_count, message_count, requests, append_log>>
    /\ UNCHANGED notStore

\* get_session_stats: the statistics are computed and nothing is written
get_session_stats ==
    /\ SessionManager_get_session_stats(sessions, now).total_sessions
            = Cardinality(DOMAIN sessions)
    /\ UNCHANGED storeVars
    /\ UNCHANGED notStore

\* time passes
Tick ==
    /\ now < MaxTime
    /\ now' = now + 1
    /\ UNCHANGED <<session_timeout, max_messages_per_session, sessions,
                   uuid_count, message_count, requests, append_log,
                   removed_by, last_access>>
    /\ UNCHANGED notStore

StoreNext ==
    \/ create_session
    \/ get_session
    \/ add_message
    \/ get_conversation_history
    \/ get_session_context
    \/ update_user_preferences
    \/ delete_session
    \/ cleanup_expired_sessions
    \/ get_session_stats
    \/ Tick

StoreSpec == StoreInit /\ [][StoreNext]_vars

---------------------------------------------------------------------------
(* Chat requests: API/routers/chat.py over API/core/agent_manager.py *)

\* chat requests received in one run
MaxRequests == 2

\* request.session_id when the client sends none
NoSessionId == -1

\* the limit AgentManager.query passes to get_conversation_history
HistoryLimit == 6

\* request.query of the chat requests followed, and the result["response"]
\* the agent answers them with
ChatQueries == {ContentCompare}
ChatResponses == {ContentFloats}

\* the status chat answers with, by the way the request ended
status_code(outcome) ==
    IF outcome = "success" THEN 200
    ELSE IF outcome = "timeout" THEN 408
    ELSE IF outcome \in {"agent_error", "unexpected"} THEN 500
    ELSE 0

\* a chat request and what is remembered of it: the session it runs on, how
\* it ended ("pending" while the agent runs), metadata.has_context, and, as
\* history, the number of messages its session held when it arrived
Request(id, outcome, has_context, prior) ==
    [session_id |-> id, outcome |-> outcome, has_context |-> has_context,
     prior |-> prior]

\* the ConversationMessage add_message builds for request r
MessageOf(L, id, role, content, r) ==
    [id |-> IF id \in DOMAIN L THEN Len(L[id]) + 1 ELSE 0,
     role |-> role, content |-> content, request |-> r]

\* mutant of chat_add_user_message: the user turn is not recorded before
\* the agent is queried
chat_add_user_message_skipped(S, t, id, message) ==
    [store |-> S, ret |-> FALSE]

\* chat: "Add user message to session", before the agent is queried
chat_add_user_message(S, t, id, message) ==
    SessionManager_add_message(S, t, id, message)

\* the log L once message has, or has not, been appended for session id
Logged(L, id, message, ok) ==
    IF ok THEN [L EXCEPT ![id] = Append(@, message)] ELSE L

\* chat up to the point where AgentManager.query awaits the agent: the
\* session is created or validated, the user turn is appended, the
\* conversation history is read. ready: the agent is initialized and healthy
chat_request ==
    /\ Len(requests) < MaxRequests
    /\ \E id \in {NoSessionId} \cup KnownIds, content \in ChatQueries,
          ready \in BOOLEAN :
        LET r == Len(requests) + 1
            fresh == id = NoSessionId
            sid == IF fresh THEN uuid_count + 1 ELSE id
            got == IF fresh
                   THEN [store |-> Bind(sessions, sid, NewSession(now)),
                         ret |-> TRUE]
                   ELSE SessionManager_get_session(sessions, now, id)
            log == IF fresh THEN Bind(append_log, sid, <<>>) ELSE append_log
            prior == IF got.ret THEN Len(got.store[sid].messages) ELSE 0
            message == MessageOf(log, sid, "user", content, r)
            added == chat_add_user_message(got.store, now, sid, message)
            hist == SessionManager_get_conversation_history(
                        added.store, now, sid, HistoryLimit)
        IN  /\ fresh => sid \in SessionIds
            /\ uuid_count' = IF fresh THEN sid ELSE uuid_count
            /\ IF ~got.ret
               THEN \* HTTPException(404), caught by "except Exception"
                    /\ sessions' = got.store
                    /\ requests' = Append(requests,
                                          Request(id, "unexpected", FALSE, 0))
                    /\ UNCHANGED append_log
               ELSE IF ~ready
               THEN \* AgentException before the agent is called
                    /\ sessions' = added.store
                    /\ append_log' = Logged(log, sid, message, added.ret)
                    /\ requests' = Append(requests,
                                          Request(sid, "agent_error", FALSE,
                                                  prior))
               ELSE /\ sessions' = hist.store
                    /\ append_log' = Logged(log, sid, message, added.ret)
                    /\ requests' = Append(requests,
                                          Request(sid, "pending",
                                                  hist.ret # <<>>, prior))
            /\ removed_by' = Removed(sessions, sessions', "get_session")
            /\ last_access' = Accessed(sessions', sid, got.ret)
    /\ UNCHANGED <<now, session_timeout, max_messages_per_session,
                   message_count>>
    /\ UNCHANGED notStore

\* chat once the agent has answered, failed or run into the deadline
chat_reply ==
    /\ \E r \in DOMAIN requests, content \in ChatResponses,
          result \in {"success", "timeout", "agent_error"} :
        LET sid == requests[r].session_id
            message == MessageOf(append_log, sid, "assistant", content, r)
            added == SessionManager_add_message(sessions, now, sid, message)
            ctx == SessionManager_get_session(added.store, now, sid)
        IN  /\ requests[r].outcome = "pending"
            /\ requests' = [requests EXCEPT ![r].outcome = result]
            /\ IF result = "success"
               THEN /\ sessions' = ctx.store
                    /\ append_log' =
                         Logged(append_log, sid, message, added.ret)
                    /\ last_access' = Accessed(ctx.store, sid, added.ret)
               ELSE /\ UNCHANGED <<sessions, append_log, last_access>>
            /\ removed_by' = Removed(sessions, sessions', "get_session")
    /\ UNCHANGED <<now, session_timeout, max_messages_per_session,
                   uuid_count, message_count>>
    /\ UNCHANGED notStore

ChatNext ==
    \/ chat_request
    \/ chat_reply
    \/ delete_session
    \/ cleanup_expired_sessions
    \/ Tick

\* the requests of the clients of one server, with the cleanup task and
\* explicit deletions running between them
ChatSpec == StoreInit /\ [][ChatNext]_vars

---------------------------------------------------------------------------
(* File-based session store: backend-chatbot/session_manager.py *)

\* calls made by threads in one run
MaxCalls == 2

\* timedelta(minutes=self.expiry_minutes), in ticks: a tick is thirty minutes
expiry_minutes == 1

\* the uuid4 values create_session draws for session files, in order
FileSessionIds == {1, 2}

\* the holder of the lock: no thread, the cleanup thread, or the thread of
\* call k >= 1
NoThread == 0
CleanupThread == -1

\* mutant of lock_available: the lock excludes nobody
lock_available_always(l) == TRUE

\* threading.Lock: a thread enters "with self.lock" when no thread holds it
lock_available(l) == l = NoThread

\* session_data as create_session writes it
NewSessionData(t) == [last_accessed |-> t, conversation_history |-> <<>>]

\* a call by a thread: the method, the session named, the statement reached,
\* the session_data loaded, and, as history, the calls that had returned
\* when it was made and whether it returned without raising
Call(op, id, before) ==
    [op |-> op, id |-> id, pc |-> "acquire", data |-> NewSessionData(0),
     before |-> before, ok |-> FALSE]

\* the entry add_message appends for call k
Entry(k) == [role |-> "user", content |-> "message", call |-> k]

\* the file-based SessionManager after __init__, /sessions empty
FileInit ==
    /\ FilesIdle
    /\ SessionsIdle
    /\ LimiterIdle
    /\ GraphIdle
    /\ OthersIdle

\* create_session, a critical section that only writes
file_create_session ==
    /\ file_count + 1 \in FileSessionIds
    /\ lock_available(lock)
    /\ file_count' = file_count + 1
    /\ fs' = Bind(fs, file_count + 1, NewSessionData(now))
    /\ UNCHANGED <<lock, threads, sweeper>>
    /\ UNCHANGED <<graphVars, storeVars, rateVars, otherVars>>

\* a thread calls add_message or get_conversation_history
file_call ==
    /\ Len(threads) < MaxCalls
    /\ \E op \in {"add_message", "get_conversation_history"},
          id \in 0..file_count :
        threads' = Append(threads,
                          Call(op, id, {j \in DOMAIN threads :
                                            threads[j].pc = "done"}))
    /\ UNCHANGED <<fs, lock, sweeper, file_count>>
    /\ UNCHANGED <<graphVars, storeVars, rateVars, otherVars>>

\* with self.lock
file_acquire ==
    /\ \E k \in DOMAIN threads :
        /\ threads[k].pc = "acquire"
        /\ lock_available(lock)
        /\ lock' = k
        /\ threads' = [threads EXCEPT ![k].pc = "exists"]
    /\ UNCHANGED <<fs, sweeper, file_count>>
    /\ UNCHANGED <<graphVars, storeVars, rateVars, otherVars>>

\* if not os.path.exists(session_path): raise ValueError; the lock is
\* released as the exception leaves the with block
file_exists ==
    /\ \E k \in DOMAIN threads :
        /\ threads[k].pc = "exists"
        /\ IF threads[k].id \in DOMAIN fs
           THEN /\ threads' = [threads EXCEPT ![k].pc = "load"]
                /\ UNCHANGED lock
           ELSE /\ threads' = [threads EXCEPT ![k].pc = "done"]
                /\ lock' = NoThread
    /\ UNCHANGED <<fs, sweeper, file_count>>
    /\ UNCHANGED <<graphVars, storeVars, rateVars, otherVars>>

\* json.load(f), and the changes made to session_data before it is saved;
\* open() raises when the file is gone
file_load ==
    /\ \E k \in DOMAIN threads :
        /\ threads[k].pc = "load"
        /\ IF threads[k].id \in DOMAIN fs
           THEN LET d == fs[threads[k].id]
                IN  /\ threads' =
                        [threads EXCEPT
                            ![k].pc = "save",
                            ![k].data =
                                [last_accessed |-> now,
                                 conversation_history |->
                                    IF threads[k].op = "add_message"
                                    THEN Append(d.conversation_history,
                                                Entry(k))
                                    ELSE d.conversation_history]]
                    /\ UNCHANGED lock
           ELSE /\ threads' = [threads EXCEPT ![k].pc = "done"]
                /\ lock' = NoThread
    /\ UNCHANGED <<fs, sweeper, file_count>>
    /\ UNCHANGED <<graphVars, storeVars, rateVars, otherVars>>

\* json.dump(session_data, f), the return and the release of the lock
file_save ==
    /\ \E k \in DOMAIN threads :
        /\ threads[k].pc = "save"
        /\ fs' = Bind(fs, threads[k].id, threads[k].data)
        /\ threads' = [threads EXCEPT ![k].pc = "done", ![k].ok = TRUE]
        /\ lock' = NoThread
    /\ UNCHANGED <<sweeper, file_count>>
    /\ UNCHANGED <<graphVars, storeVars, rateVars, otherVars>>

\* cleanup_expired_sessions: with self.lock
file_cleanup_acquire ==
    /\ sweeper.pc = "idle"
    /\ lock_available(lock)
    /\ lock' = CleanupThread
    /\ sweeper' = [sweeper EXCEPT !.pc = "scan"]
    /\ UNCHANGED <<fs, threads, file_count>>
    /\ UNCHANGED <<graphVars, storeVars, rateVars, otherVars>>

\* cleanup_expired_sessions: the loop that collects the expired sessions
file_cleanup_scan ==
    /\ sweeper.pc = "scan"
    /\ sweeper' = [pc |-> "delete",
                   expired |-> {id \in DOMAIN fs :
                                  now - fs[id].last_accessed > expiry_minutes}]
    /\ UNCHANGED <<fs, lock, threads, file_count>>
    /\ UNCHANGED <<graphVars, storeVars, rateVars, otherVars>>

\* cleanup_expired_sessions: the loop that removes them, and the release
file_cleanup_delete ==
    /\ sweeper.pc = "delete"
    /\ fs' = [id \in DOMAIN fs \ sweeper.expired |-> fs[id]]
    /\ sweeper' = [pc |-> "idle", expired |-> {}]
    /\ lock' = NoThread
    /\ UNCHANGED <<threads, file_count>>
    /\ UNCHANGED <<graphVars, storeVars, rateVars, otherVars>>

FileNext ==
    \/ file_create_session
    \/ file_call
    \/ file_acquire
    \/ file_exists
    \/ file_load
    \/ file_save
    \/ file_cleanup_acquire
    \/ file_cleanup_scan
    \/ file_cleanup_delete
    \/ Tick

FileSpec == FileInit /\ [][FileNext]_vars

---------------------------------------------------------------------------
(* Properties *)

TotalCalls == calls["measurement"] + calls["metadata"] + calls["semantic"]

ResultOf(a) ==
    IF a = "measurement" THEN measurement_results
    ELSE IF a = "metadata" THEN metadata_results
    ELSE semantic_results

\* the query holds no word of parse_intent's three keyword lists
NoKeywords(q) ==
    ~ContainsAny(q, MeasurementWords \cup MetadataWords \cup SemanticWords)

\* C1: execute_agents runs at most max_cycles + 1 times in an invocation,
\* whatever the agents return and whatever the analyzer decides.
C1_ExecuteAgentsBounded == exec_count <= max_cycles + 1

\* the budget is used up: the initial run and max_cycles >= 1 refinement runs
C1_Witness ==
    /\ pc = "END"
    /\ max_cycles >= 1
    /\ exec_count = max_cycles + 1

\* C2: cycle_count stays within 0..max_cycles, and it changes only in
\* refine_intent, by exactly +1 (so it never decreases).
C2_CycleCountMonotone ==
    /\ [](cycle_count \in 0..max_cycles)
    /\ [][cycle_count' # cycle_count =>
            pc = "refine_intent" /\ cycle_count' = cycle_count + 1]_vars

\* refine_intent has advanced the counter up to the budget
C2_Witness ==
    /\ pc = "execute_agents"
    /\ max_cycles >= 2
    /\ cycle_count = max_cycles

\* C3: the process() calls of one invocation number at most
\* (max_cycles + 1) times the agents enabled in the intent.
C3_AgentCallsBounded ==
    TotalCalls <= (max_cycles + 1) * Cardinality(EnabledAgents(intent))

\* all three agents were called in the initial run and in every refinement
C3_Witness ==
    /\ pc = "END"
    /\ max_cycles >= 1
    /\ EnabledAgents(intent) = Agents
    /\ TotalCalls = (max_cycles + 1) * 3

\* C4: every invocation ends: synthesize_response sets final_response and
\* the graph reaches END.
C4_Terminates == <>(pc = "END" /\ final_response # None)

\* an invocation that went through a refinement has ended
C4_Witness ==
    /\ pc = "END"
    /\ final_response # None
    /\ cycle_count >= 1

C6_ParseFailureIsError ==
    (~query.isStr /\ pc # "parse_intent")
        => /\ error # None
           /\ TotalCalls = 0
           /\ pc # "refine_intent"
           /\ cycle_count = 0
           /\ pc = "END" => final_response = "Error: "

\* a failed parse has run through the graph to the error response
C6_Witness ==
    /\ ~query.isStr
    /\ pc = "END"
    /\ exec_count = 1
    /\ analysis_results.needs_refinement
    /\ max_cycles >= 1
    /\ final_response = "Error: "

\* C7: execute_agents calls exactly the agents whose needs_* flag is set,
\* each once, and refine_intent leaves the set of enabled agents as it is.
C7_ExactlyEnabledAgents ==
    [][/\ (pc = "execute_agents" /\ ~intent.isNone) =>
            /\ last_called' = EnabledAgents(intent)
            /\ \A a \in Agents :
                 calls'[a] = calls[a]
                    + (IF a \in EnabledAgents(intent) THEN 1 ELSE 0)
       /\ pc = "refine_intent" =>
            EnabledAgents(intent') = EnabledAgents(intent)]_vars

\* two agents ran again after a refinement that changed the intent
C7_Witness ==
    /\ pc = "analyze_quality"
    /\ cycle_count >= 1
    /\ intent.semantic_broadened
    /\ Cardinality(EnabledAgents(intent)) = 2
    /\ last_called = EnabledAgents(intent)

\* C8: a backend or LLM failure inside an agent comes back as an
\* error-tagged result, no exception reaches execute_agents, and every other
\* enabled agent is still called and its result recorded.
C8_FailuresAreValues ==
    (pc = "analyze_quality" /\ ~intent.isNone)
        => /\ error = None
           /\ last_called = EnabledAgents(intent)
           /\ \A a \in last_called : ResultOf(a).present
           /\ \A a \in last_failed : ResultOf(a).error

\* the measurement backend raised, the other two agents answered
C8_Witness ==
    /\ pc = "analyze_quality"
    /\ last_failed = {"measurement"}
    /\ last_called = Agents
    /\ measurement_results.error
    /\ metadata_results.present /\ ~metadata_results.error
    /\ semantic_results.present /\ ~semantic_results.error

\* C9 as stated: a query that enables only the Measurement agent and gets a
\* non-empty row set with statistics, time range and spatial coverage is
\* synthesized after one run of execute_agents, without refinement.
C9_MeasurementOnlyOneCycle ==
    (/\ pc = "END"
     /\ query.isStr
     /\ EnabledAgents(intent) = {"measurement"}
     /\ measurement_results.count > 0
     /\ measurement_results.statistics
     /\ measurement_results.time_range
     /\ measurement_results.spatial_coverage)
        => (exec_count = 1 /\ cycle_count = 0)

\* every enabled agent returned an error result in the last cycle
AllEnabledErrored ==
    /\ ~intent.isNone
    /\ \A a \in EnabledAgents(intent) : ResultOf(a).error

\* C10 as stated: when every enabled agent returned an error in the final
\* cycle the request fails and no synthesized answer is returned; when one
\* succeeded and the deadline held, a response is returned.
C10_AllErroredFails ==
    (http_status # 0 /\ query.isStr)
        => /\ AllEnabledErrored =>
                (http_status # 200 /\ final_response # "synthesis")
           /\ (~AllEnabledErrored /\ http_status # 408) =>
                (http_status = 200 /\ final_response # None)

---------------------------------------------------------------------------
(* Properties of the session store *)

\* the last n entries of lst, none when n = 0
LastKept(lst, n) ==
    IF n >= Len(lst) THEN lst ELSE SubSeq(lst, Len(lst) - n + 1, Len(lst))

NoDuplicates(lst) ==
    \A i, j \in DOMAIN lst : lst[i] = lst[j] => i = j

\* C13: in every reachable state of the session store, for every session
\* and every configured max_messages_per_session, the session holds at most
\* max_messages_per_session messages.
C13_MessagesBounded ==
    \A id \in DOMAIN sessions :
        Len(sessions[id].messages) <= max_messages_per_session

\* C14: after n add_message calls on a live session, session.messages is the
\* last min(n, max_messages_per_session) appended messages, in append order.
C14_LastMessagesKept ==
    \A id \in DOMAIN sessions :
        sessions[id].messages =
            LastKept(append_log[id],
                 Min(Len(append_log[id]), max_messages_per_session))

\* C15: every successful access to a live session through get_session,
\* add_message, get_conversation_history, get_session_context or
\* update_user_preferences sets last_activity to the current time, and
\* get_session_stats and the cleanup pass leave the last_activity of every
\* session alone: last_activity is always the time of the last successful
\* access (or of the creation).
C15_LastActivityIsLastAccess ==
    \A id \in DOMAIN sessions :
        sessions[id].last_activity = last_access[id]

\* a session created at time 0 (the session created after it was never
\* touched since time 0) has been accessed at a later time
C15_Witness ==
    /\ DOMAIN sessions = {1, 2}
    /\ sessions[2].last_activity = 0
    /\ now > 0
    /\ sessions[1].last_activity = now

\* C17: for a session in the store, get_session returns None if and only if
\* now - last_activity > session_timeout; it then removes the session, and
\* every later get_session of that id returns None as well; a session once
\* removed is never in the store again.
C17_ExpiredIffNone ==
    /\ \A id \in DOMAIN sessions :
        LET r == SessionManager_get_session(sessions, now, id)
        IN  /\ ~r.ret <=> now - sessions[id].last_activity > session_timeout
            /\ ~r.ret =>
                /\ id \notin DOMAIN r.store
                /\ \A t \in now..MaxTime :
                    ~SessionManager_get_session(r.store, t, id).ret
    /\ \A id \in DOMAIN removed_by :
        /\ id \notin DOMAIN sessions
        /\ ~SessionManager_get_session(sessions, now, id).ret

\* get_session has found a session expired and removed it, another session
\* is still served
C17_Witness ==
    /\ \E id \in DOMAIN removed_by : removed_by[id] = "get_session"
    /\ \E id \in DOMAIN sessions :
        SessionManager_get_session(sessions, now, id).ret

\* C18: a cleanup pass removes exactly the sessions expired at the time of
\* the pass: afterwards no session with now - last_activity >
\* session_timeout is in the store, and every session whose last_activity
\* is within session_timeout is still there, unchanged.
C18_SweepRemovesExactlyExpired ==
    LET T == SessionManager_cleanup_expired_sessions(sessions, now)
    IN  /\ DOMAIN T = {id \in DOMAIN sessions :
                        now - sessions[id].last_activity <= session_timeout}
        /\ \A id \in DOMAIN T : T[id] = sessions[id]

\* a pass has removed session 1 and kept session 2, which had been idle for
\* some time, but not for more than session_timeout
C18_Witness ==
    /\ 1 \in DOMAIN removed_by
    /\ removed_by[1] = "cleanup_expired_sessions"
    /\ 2 \in DOMAIN sessions
    /\ sessions[2].last_activity < now
    /\ now - sessions[2].last_activity <= session_timeout

\* the regions, floats and parameters a message mentions
MentionsOf(kind, message) ==
    IF kind = "regions_discussed"
    THEN ContentWords(message.content) \cap Range(context_regions)
    ELSE IF kind = "floats_analyzed" THEN Range(FloatIdsIn(message.content))
    ELSE ContentWords(message.content) \cap Range(context_parameters)

ContextLists ==
    {"regions_discussed", "floats_analyzed", "parameters_of_interest"}

\* the index in log of the first message mentioning x
FirstMention(kind, log, x) ==
    CHOOSE i \in DOMAIN log :
        /\ x \in MentionsOf(kind, log[i])
        /\ \A j \in 1..(i - 1) : x \notin MentionsOf(kind, log[j])

\* the regions of a content in the order the text names them
RegionsInTextOrder(c) ==
    IF c = ContentCompare THEN <<"bay of bengal", "arabian sea">> ELSE <<>>

\* lst holds exactly what the messages of log mention, once each, in the
\* order of the messages that mention them first (each entry no later than
\* its successor, hence than every later entry)
InMessageOrder(kind, lst, log) ==
    /\ NoDuplicates(lst)
    /\ Range(lst) = UNION {MentionsOf(kind, log[i]) : i \in DOMAIN log}
    /\ \A i \in 1..(Len(lst) - 1) :
        FirstMention(kind, log, lst[i]) <= FirstMention(kind, log, lst[i + 1])

\* C19 as stated: after any sequence of add_message calls each context list
\* of a session has no duplicates and keeps first-mention order (also
\* within one message), and the float list never holds more than 20
\* entries.
C19_ContextListsBounded ==
    \A id \in DOMAIN sessions :
        /\ \A kind \in ContextLists :
            InMessageOrder(kind, sessions[id][kind], append_log[id])
        /\ Len(append_log[id]) = 1 /\ append_log[id][1].content = ContentCompare
            => sessions[id].regions_discussed
                    = RegionsInTextOrder(ContentCompare)
        /\ Len(sessions[id].floats_analyzed) <= 20

\* C19 as amended: each context list of a session holds exactly the
\* regions, floats and parameters its messages mentioned, without
\* duplicates, in the order of the messages that mentioned them first;
\* what one message mentions first is added in the order of the lists of
\* _update_session_context (regions, parameters) and in text order
\* (floats); the float list is not capped.
C19_ContextListsDeduplicated ==
    \A id \in DOMAIN sessions :
        /\ \A kind \in ContextLists :
            InMessageOrder(kind, sessions[id][kind], append_log[id])
        /\ \A i, j \in DOMAIN append_log[id] :
              /\ i < j
              /\ append_log[id][i].content = ContentCompare
              /\ append_log[id][j].content = ContentFloats
              /\ \A k \in 1..(j - 1) :
                    append_log[id][k].content = ContentCompare
            => /\ sessions[id].regions_discussed
                    = <<"arabian sea", "bay of bengal">>
               /\ sessions[id].parameters_of_interest = <<"temperature">>
               /\ sessions[id].floats_analyzed = [n \in 1..21 |-> n]

\* a session has been told of the same regions twice and of twenty-one
\* floats, one of them twice
C19_Witness ==
    \E id \in DOMAIN sessions :
        /\ Len(append_log[id]) >= 2
        /\ \E i \in DOMAIN append_log[id] :
            append_log[id][i].content = ContentFloats
        /\ Len(sessions[id].floats_analyzed) = 21

---------------------------------------------------------------------------
(* Properties of the chat requests *)

\* the turns of role that request r appended, among the messages lst
TurnsOf(lst, r, role) ==
    {i \in DOMAIN lst : lst[i].request = r /\ lst[i].role = role}

\* requests whose agent query failed: AgentException or AgentTimeoutException
FailedInQuery(r) == requests[r].outcome \in {"timeout", "agent_error"}

\* C11: when the agent query of a chat request fails (agent error or
\* timeout), the session has received that request's user turn, once, and
\* no assistant turn for it; the session, as long as it is in the store,
\* holds the user turn (unless later messages pushed it out past
\* max_messages_per_session) and no assistant turn of the request.
C11_FailedRequestKeepsUserTurn ==
    \A r \in DOMAIN requests :
        FailedInQuery(r) =>
            LET sid == requests[r].session_id
            IN  /\ Cardinality(TurnsOf(append_log[sid], r, "user")) = 1
                /\ TurnsOf(append_log[sid], r, "assistant") = {}
                /\ sid \in DOMAIN sessions =>
                    /\ TurnsOf(sessions[sid].messages, r, "assistant") = {}
                    /\ \/ TurnsOf(sessions[sid].messages, r, "user") # {}
                       \/ Len(append_log[sid]) > max_messages_per_session

\* a request has timed out and another one failed with an agent error; the
\* session of each holds its user turn as its last message
C11_Witness ==
    \E r, q \in DOMAIN requests :
        /\ requests[r].outcome = "timeout"
        /\ requests[q].outcome = "agent_error"
        /\ \A x \in {r, q} :
            LET sid == requests[x].session_id
            IN  /\ sid \in DOMAIN sessions
                /\ sessions[sid].messages # <<>>
                /\ sessions[sid].messages[Len(sessions[sid].messages)]
                        .request = x
                /\ sessions[sid].messages[Len(sessions[sid].messages)]
                        .role = "user"

\* C12: on the first chat turn of a session (the session held no message
\* before the request) metadata.has_context of the response is false;
\* has_context is true only when the session held an earlier turn.
C12_FirstTurnHasNoContext ==
    \A r \in DOMAIN requests :
        requests[r].outcome = "success" =>
            (requests[r].has_context <=> requests[r].prior > 0)

---------------------------------------------------------------------------
(* Properties of the file-based session store *)

\* the add_message calls on session id that have returned without raising
ReturnedAdds(id) ==
    {k \in DOMAIN threads :
        /\ threads[k].op = "add_message"
        /\ threads[k].id = id
        /\ threads[k].pc = "done"
        /\ threads[k].ok}

\* where the entry of call k stands in the history h
PositionsOf(h, k) == {i \in DOMAIN h : h[i].call = k}

---------------------------------------------------------------------------
(* Rate limiter: API/middleware/rate_limit.py *)

\* the client addresses _get_client_ip tells apart
ClientIps == {"10.0.0.1", "10.0.0.2"}

\* the configurations followed: RATE_LIMIT_CALLS, and RATE_LIMIT_PERIOD in
\* ticks
RateCalls == {0, 1, 2}
RatePeriods == {1, 2}

\* the ticks of time.time() followed
MaxRateTime == 3

\* while client_requests and client_requests[0] <= now - self.period:
\*     client_requests.popleft()
RECURSIVE popleft_old(_, _)
popleft_old(client_requests, t) ==
    IF client_requests # <<>> /\ Head(client_requests) <= t - rate_period
    THEN popleft_old(Tail(client_requests), t)
    ELSE client_requests

\* mutant of is_allowed: the request is let through while the window holds
\* no more than calls requests
is_allowed_one_more(client_requests, t) ==
    LET kept == popleft_old(client_requests, t)
    IN  IF Len(kept) <= rate_calls
        THEN [deque |-> Append(kept, t), allowed |-> TRUE]
        ELSE [deque |-> kept, allowed |-> FALSE]

\* mutant of is_allowed: the rejected request is recorded in the deque too
is_allowed_recording_rejected(client_requests, t) ==
    LET kept == popleft_old(client_requests, t)
    IN  [deque |-> Append(kept, t), allowed |-> Len(kept) < rate_calls]

\* _is_allowed at time t: the deque of the client afterwards, and the answer
is_allowed(client_requests, t) ==
    LET kept == popleft_old(client_requests, t)
    IN  IF Len(kept) < rate_calls
        THEN [deque |-> Append(kept, t), allowed |-> TRUE]
        ELSE [deque |-> kept, allowed |-> FALSE]

\* RateLimitMiddleware.__init__; clients is a defaultdict(deque)
RateInit ==
    /\ clients = [c \in ClientIps |-> <<>>]
    /\ rate_calls \in RateCalls
    /\ rate_period \in RatePeriods
    /\ admitted = [c \in ClientIps |-> <<>>]
    /\ rejected = [c \in ClientIps |-> {}]
    /\ SessionsIdle
    /\ FilesIdle
    /\ GraphIdle
    /\ OthersIdle

\* dispatch: the request of a client is let through or rejected with 429
dispatch ==
    /\ \E c \in ClientIps :
        LET r == is_allowed(clients[c], now)
        IN  /\ clients' = [clients EXCEPT ![c] = r.deque]
            /\ admitted' = IF r.allowed
                           THEN [admitted EXCEPT ![c] = Append(@, now)]
                           ELSE admitted
            /\ rejected' = IF r.allowed
                           THEN rejected
                           ELSE [rejected EXCEPT ![c] = @ \cup {now}]
    /\ UNCHANGED <<rate_calls, rate_period>>
    /\ UNCHANGED <<graphVars, storeVars, fileVars, otherVars>>

\* time.time() moves on between two requests
time_passes ==
    /\ now < MaxRateTime
    /\ now' = now + 1
    /\ UNCHANGED <<session_timeout, max_messages_per_session, sessions,
                   uuid_count, message_count, requests, append_log,
                   removed_by, last_access>>
    /\ UNCHANGED notStore

RateNext ==
    \/ dispatch
    \/ time_passes

RateSpec == RateInit /\ [][RateNext]_vars

---------------------------------------------------------------------------
(* Properties of the rate limiter *)

\* the requests of client c let through in the interval of length rate_period
\* that ends at time t, both ends counted: those at times in
\* [t - rate_period, t]
AdmittedWithin(c, t) ==
    {i \in DOMAIN admitted[c] :
        t - rate_period <= admitted[c][i] /\ admitted[c][i] <= t}

\* the same without the early end: those at times in (t - rate_period, t]
AdmittedIn(c, t) ==
    {i \in DOMAIN admitted[c] :
        t - rate_period < admitted[c][i] /\ admitted[c][i] <= t}

\* C20: for any client and any sequence of request arrival times, at most
\* calls requests of that client are admitted within any rolling interval
\* of length period.
C20_AtMostCallsPerPeriod ==
    \A c \in ClientIps : \A t \in 0..(now + rate_period) :
        Cardinality(AdmittedWithin(c, t)) <= rate_calls

\* C20 (amended): for any client and any sequence of request arrival times,
\* at most calls requests of that client are admitted within any rolling
\* interval of length period that is open at its early end, (t - period, t]:
\* a request that arrives exactly period after an admitted one no longer
\* counts that one.
C20_AtMostCallsPerHalfOpenPeriod ==
    \A c \in ClientIps : \A t \in 0..(now + rate_period) :
        Cardinality(AdmittedIn(c, t)) <= rate_calls

\* a client filled a window, and exactly rate_period after its first request
\* of that window it was let through again, up to the limit
C20_Witness ==
    \E c \in ClientIps :
        /\ rate_calls > 0
        /\ \E i \in DOMAIN admitted[c] : admitted[c][i] = now - rate_period
        /\ Cardinality(AdmittedIn(c, now - rate_period)) = rate_calls
        /\ Cardinality(AdmittedIn(c, now)) = rate_calls

\* the times in (t, t + rate_period], the window that follows time t, at
\* which client c sent a request
SentAfter(c, t) ==
    {u \in rejected[c] \cup Range(admitted[c]) :
        t < u /\ u <= t + rate_period}

\* the times in that window at which a request of c was let through
AdmittedAfter(c, t) ==
    {u \in Range(admitted[c]) : t < u /\ u <= t + rate_period}

\* C21: a client rejected by the rate limiter is admitted again: once the
\* window that follows a rejection is over, if the client sent requests
\* during that window then at least one of them was admitted (the limiter
\* admitting requests at all, calls >= 1).
C21_AdmittedInNextWindow ==
    \A c \in ClientIps : \A t \in rejected[c] :
        /\ rate_calls >= 1
        /\ t + rate_period < now
        /\ SentAfter(c, t) # {}
        => AdmittedAfter(c, t) # {}

\* C21 (amended): when the limiter admits requests at all (calls >= 1), a
\* client rejected at time t that sends a request at the end of the window
\* that follows, at time t + period, has a request admitted in that window,
\* whatever rejected requests it sent in between; requests sent earlier in
\* the window can all be rejected.
C21_AdmittedAtEndOfNextWindow ==
    \A c \in ClientIps : \A t \in rejected[c] :
        /\ rate_calls >= 1
        /\ t + rate_period \in SentAfter(c, t)
        => AdmittedAfter(c, t) # {}

\* a client was rejected, sent a request that was rejected during the
\* window that followed, and was let through at the end of that window
C21_Witness ==
    \E c \in ClientIps : \E t \in rejected[c] :
        /\ rate_calls >= 1
        /\ rate_period = 2
        /\ t + 1 \in rejected[c]
        /\ AdmittedAfter(c, t) = {t + rate_period}

---------------------------------------------------------------------------
(* Properties of the status codes of chat *)

\* a chat request arrives in this step and carries a session id, which is
\* unknown or expired at that moment
ArrivesWithDeadSession ==
    /\ Len(requests') = Len(requests) + 1
    /\ uuid_count' = uuid_count
    /\ LET id == requests'[Len(requests')].session_id
       IN  \/ id \notin DOMAIN sessions
           \/ is_session_expired(sessions[id], now)

\* C22: POST /api/v1/chat carrying a session_id that is unknown or expired
\* is answered with HTTP status 404.
C22_DeadSessionIs404 ==
    [][ArrivesWithDeadSession =>
        status_code(requests'[Len(requests')].outcome) = 404]_vars

---------------------------------------------------------------------------
(* Agent manager: API/core/agent_manager.py, with the handlers of chat *)

\* chat requests followed, and the calls (LLM, agent, backend) the executor
\* thread of one request makes
MaxJobs == 2
MaxWorkerCalls == 2

\* request.timeout, in seconds
RequestTimeout == 300

\* the characters of the query an exception of AgentManager.query echoes
EchoChars == 100

\* request.query: a text and the number of its characters (1..2000)
ManagerQueries ==
    {[text |-> ContentCompare, chars |-> 60],
     [text |-> ContentFloats, chars |-> 2000]}

\* query[:n]
Prefix(q, n) == [text |-> q.text, chars |-> Min(q.chars, n)]

\* AgentException(message, details) and AgentTimeoutException(message,
\* details); details or {}
NoDetails == [x \in {} |-> 0]

AgentException(message, details) ==
    [type |-> "AgentException", message |-> message, details |-> details]

AgentTimeoutException(message, details) ==
    [type |-> "AgentTimeoutException", message |-> message,
     details |-> details]

\* the exceptions AgentManager.query raises
NotInitialized == AgentException("Agent system not initialized", NoDetails)
NotHealthy == AgentException("Agent system is not healthy", NoDetails)

TimedOut(q) ==
    AgentTimeoutException("Query execution timed out after 300 seconds",
                          [query |-> Prefix(q, EchoChars),
                           timeout |-> RequestTimeout])

ExecutionFailed(q) ==
    AgentException("Query execution failed",
                   [query |-> Prefix(q, EchoChars),
                    error_type |-> "RuntimeError"])

\* the except clauses of chat: the HTTPException raised for exception e
chat_except(e) ==
    IF e.type = "AgentTimeoutException"
    THEN [status_code |-> 408,
          detail |-> [error |-> "Request Timeout", message |-> e.message,
                      suggestion |-> "Try a simpler query or increase timeout"]]
    ELSE [status_code |-> 500,
          detail |-> [error |-> "Agent Error", message |-> e.message,
                      details |-> e.details]]

\* the ChatResponse of a request whose agent answered
chat_success == [status_code |-> 200, detail |-> [status |-> "success"]]

NoResponse == [status_code |-> 0, detail |-> NoDetails]

\* a call of AgentManager.query made by chat for query q.
\* phase: "waiting" in asyncio.wait_for, "answered" once chat has replied;
\* worker: the executor thread running MainAgent.query, "none" when query
\* raised before it started one; outcome: history, how query ended
\* ("not_ready": agent missing or unhealthy, "failed": other exception,
\* "timeout", "success", "pending" while it waits); calls_made and
\* late_calls: history, the calls the thread made, and those it made after
\* the reply
Job(q, phase, worker, outcome, response) ==
    [query |-> q, phase |-> phase, worker |-> worker, outcome |-> outcome,
     response |-> response, calls_made |-> 0, late_calls |-> 0]

\* the application once lifespan has run: AgentManager.initialize built
\* the agent and ran _health_check, whose failure it does not report
ManagerInit ==
    /\ agent = "MainAgent"
    /\ is_healthy \in BOOLEAN
    /\ query_count = 0
    /\ error_count = 0
    /\ jobs = <<>>
    /\ ended = [succeeded |-> 0, failed |-> 0]
    /\ SessionsIdle
    /\ FilesIdle
    /\ LimiterIdle
    /\ GraphIdle
    /\ ClassifierIdle
    /\ FormatterIdle
    /\ EmbedderIdle
    /\ RefinerIdle

\* _health_check, run by get_health_status: without agent the test query
\* raises, otherwise it passes or fails
AgentManager_health_check ==
    /\ is_healthy' \in IF agent = "None" THEN {FALSE} ELSE BOOLEAN
    /\ is_healthy' # is_healthy
    /\ UNCHANGED <<agent, query_count, error_count, jobs, ended>>
    /\ UNCHANGED <<graphVars, storeVars, fileVars, rateVars, classifyVars,
                   formatVars, embedVars, refineVars>>

\* cleanup
AgentManager_cleanup ==
    /\ agent = "MainAgent"
    /\ agent' = "None"
    /\ is_healthy' = FALSE
    /\ UNCHANGED <<query_count, error_count, jobs, ended>>
    /\ UNCHANGED <<graphVars, storeVars, fileVars, rateVars, classifyVars,
                   formatVars, embedVars, refineVars>>

\* chat calls AgentManager.query: it raises when the agent is missing or
\* unhealthy, or when run_in_executor fails (submitted = FALSE), and
\* otherwise waits for the executor thread
AgentManager_query ==
    /\ Len(jobs) < MaxJobs
    /\ \E q \in ManagerQueries, submitted \in BOOLEAN :
        IF agent = "None"
        THEN /\ jobs' = Append(jobs, Job(q, "answered", "none", "not_ready",
                                         chat_except(NotInitialized)))
             /\ UNCHANGED <<error_count, ended>>
        ELSE IF ~is_healthy
        THEN /\ jobs' = Append(jobs, Job(q, "answered", "none", "not_ready",
                                         chat_except(NotHealthy)))
             /\ UNCHANGED <<error_count, ended>>
        ELSE IF ~submitted
        THEN /\ jobs' = Append(jobs, Job(q, "answered", "none", "failed",
                                         chat_except(ExecutionFailed(q))))
             /\ error_count' = error_count + 1
             /\ ended' = [ended EXCEPT !.failed = @ + 1]
        ELSE /\ jobs' = Append(jobs, Job(q, "waiting", "running", "pending",
                                         NoResponse))
             /\ UNCHANGED <<error_count, ended>>
    /\ UNCHANGED <<agent, is_healthy, query_count>>
    /\ UNCHANGED <<graphVars, storeVars, fileVars, rateVars, classifyVars,
                   formatVars, embedVars, refineVars>>

\* the executor thread of a request makes one more call of the LLM, an
\* agent or a backend; a thread cannot be cancelled, so it goes on when
\* wait_for has given up
executor_call ==
    /\ \E j \in DOMAIN jobs :
        /\ jobs[j].worker = "running"
        /\ jobs[j].calls_made < MaxWorkerCalls
        /\ jobs' = [jobs EXCEPT
                      ![j].calls_made = @ + 1,
                      ![j].late_calls =
                          IF jobs[j].phase = "answered" THEN @ + 1 ELSE @]
    /\ UNCHANGED <<agent, is_healthy, query_count, error_count, ended>>
    /\ UNCHANGED <<graphVars, storeVars, fileVars, rateVars, classifyVars,
                   formatVars, embedVars, refineVars>>

\* MainAgent.query returns in the executor thread (it catches every
\* exception and returns a text)
executor_return ==
    /\ \E j \in DOMAIN jobs :
        /\ jobs[j].worker = "running"
        /\ jobs' = [jobs EXCEPT ![j].worker = "returned"]
    /\ UNCHANGED <<agent, is_healthy, query_count, error_count, ended>>
    /\ UNCHANGED <<graphVars, storeVars, fileVars, rateVars, classifyVars,
                   formatVars, embedVars, refineVars>>

\* wait_for hands the result to query, which counts it and returns; chat
\* answers 200
AgentManager_query_returns ==
    /\ \E j \in DOMAIN jobs :
        /\ jobs[j].phase = "waiting"
        /\ jobs[j].worker = "returned"
        /\ jobs' = [jobs EXCEPT ![j].phase = "answered",
                                ![j].outcome = "success",
                                ![j].response = chat_success]
    /\ query_count' = query_count + 1
    /\ ended' = [ended EXCEPT !.succeeded = @ + 1]
    /\ UNCHANGED <<agent, is_healthy, error_count>>
    /\ UNCHANGED <<graphVars, storeVars, fileVars, rateVars, classifyVars,
                   formatVars, embedVars, refineVars>>

\* the deadline of wait_for passes before the thread has returned:
\* asyncio.TimeoutError, AgentTimeoutException, and the answer of chat
AgentManager_query_timeout ==
    /\ \E j \in DOMAIN jobs :
        /\ jobs[j].phase = "waiting"
        /\ jobs[j].worker = "running"
        /\ jobs' = [jobs EXCEPT
                      ![j].phase = "answered",
                      ![j].outcome = "timeout",
                      ![j].response = chat_except(TimedOut(jobs[j].query))]
    /\ error_count' = error_count + 1
    /\ ended' = [ended EXCEPT !.failed = @ + 1]
    /\ UNCHANGED <<agent, is_healthy, query_count>>
    /\ UNCHANGED <<graphVars, storeVars, fileVars, rateVars, classifyVars,
                   formatVars, embedVars, refineVars>>

\* reset_metrics, called by POST /metrics/reset while the counters count
AgentManager_reset_metrics ==
    /\ query_count + error_count > 0
    /\ query_count' = 0
    /\ error_count' = 0
    /\ ended' = [succeeded |-> 0, failed |-> 0]
    /\ UNCHANGED <<agent, is_healthy, jobs>>
    /\ UNCHANGED <<graphVars, storeVars, fileVars, rateVars, classifyVars,
                   formatVars, embedVars, refineVars>>

\* a quotient of two counters, as the pair of them
Quotient(n, d) == [num |-> n, den |-> d]

\* error_rate as get_metrics and get_health_status compute it
error_rate(queries, errors) ==
    IF queries > 0 THEN Quotient(errors, queries) ELSE Quotient(0, 1)

ManagerNext ==
    \/ AgentManager_health_check
    \/ AgentManager_cleanup
    \/ AgentManager_query
    \/ executor_call
    \/ executor_return
    \/ AgentManager_query_returns
    \/ AgentManager_query_timeout
    \/ AgentManager_reset_metrics

ManagerSpec == ManagerInit /\ [][ManagerNext]_vars

---------------------------------------------------------------------------
(* Properties of the agent manager and the status codes of chat *)

\* C23: when the core is not ready (agent not initialized, cleaned up or
\* reported unhealthy), POST /api/v1/chat is answered with status 503 and
\* the agent is not invoked.
C23_NotReadyIs503 ==
    \A j \in DOMAIN jobs :
        jobs[j].outcome = "not_ready" =>
            /\ jobs[j].response.status_code = 503
            /\ jobs[j].worker = "none"
            /\ jobs[j].calls_made = 0

\* the request of job j ran into its deadline
DeadlineFired(j) == jobs[j].outcome = "timeout"

\* the error detail carries the first EchoChars characters of query q
CarriesEcho(detail, q) ==
    \/ /\ "query" \in DOMAIN detail
       /\ detail.query = Prefix(q, EchoChars)
    \/ /\ "details" \in DOMAIN detail
       /\ "query" \in DOMAIN detail.details
       /\ detail.details.query = Prefix(q, EchoChars)

\* C24: when agent execution exceeds the request's deadline, the chat
\* request fails with HTTP 408 and the error returned to the client
\* carries a truncated echo of the query.
C24_TimeoutIs408WithEcho ==
    \A j \in DOMAIN jobs :
        DeadlineFired(j) =>
            /\ jobs[j].response.status_code = 408
            /\ CarriesEcho(jobs[j].response.detail, jobs[j].query)

\* C25: once the deadline of a request has fired, no further agent, LLM or
\* backend call is made on its behalf, and nothing computed afterwards is
\* surfaced or recorded.
C25_NoWorkAfterTimeout ==
    \A j \in DOMAIN jobs :
        DeadlineFired(j) =>
            /\ jobs[j].late_calls = 0
            /\ jobs[j].response = chat_except(TimedOut(jobs[j].query))

---------------------------------------------------------------------------
(* Query classification: CyclicMultiAgentArgoRAG.query and _classify_query *)
(* (agent/cyclic_multi_agent.py), MainAgent.query (agent/main_agent.py)    *)

\* phrases of one query
MaxPhrases == 2

\* the phrases queries are made of
ClassifierVocabulary ==
    {"hello", "thank you", "what was my previous question",
     "salinity", "what is salinity", "temperature in the arabian sea",
     "float 1901442", "list all float ids", "el nino", "this region"}

\* the patterns and terms of _classify_query that occur in a phrase
\* ("pattern in query_lower" is a substring test: "this" holds "hi");
\* "\d{7}" stands for a match of the float id pattern
PatternsIn(p) ==
    CASE p = "hello"        -> {"hello"}
      [] p = "thank you"    -> {"thank you"}
      [] p = "what was my previous question"
                            -> {"what was my previous question",
                                "previous question"}
      [] p = "salinity"     -> {"salinity"}
      [] p = "what is salinity"
                            -> {"salinity", "what is"}
      [] p = "temperature in the arabian sea"
                            -> {"temperature", "temp", "sea", "arabian sea"}
      [] p = "float 1901442" -> {"float", "\\d{7}"}
      [] p = "list all float ids"
                            -> {"list all float", "all float id", "float"}
      [] p = "el nino"      -> {}
      [] p = "this region"  -> {"hi"}
      [] OTHER              -> {}

\* pattern in query_lower
Matches(q, pattern) == \E p \in q : pattern \in PatternsIn(p)

ClassifierQueries ==
    {q \in SUBSET ClassifierVocabulary : Cardinality(q) <= MaxPhrases}

\* conversation_history as the classifier uses it: the content of the
\* last user message, or none
ClassifierHistories == {<<>>, <<"salinity">>}

list_patterns == {"list all float", "all float id", "show me all float"}

conversational_patterns ==
    <<"hello", "hi", "hey", "greetings", "thank you", "thanks", "thx",
      "goodbye", "bye", "see you", "how are you", "what can you do", "help",
      "who are you", "what is your name">>

previous_patterns ==
    <<"what was my previous question", "what did i ask before",
      "what was my last query", "previous question", "last question">>

oceanographic_terms ==
    {"temperature", "temp", "salinity", "salt", "pressure", "depth",
     "float", "argo", "ocean", "sea", "marine", "measurement", "data",
     "analysis", "trend", "pattern", "arabian sea", "bay of bengal",
     "indian ocean", "latitude", "longitude", "cycle", "profile"}

data_terms == {"float", "argo", "measurement", "data", "analysis"}

definition_words == {"what is", "define", "explain", "meaning"}

\* the first pattern of the list found in the query, None when there is
\* none
FirstMatch(patterns, q) ==
    IF \E i \in DOMAIN patterns : Matches(q, patterns[i])
    THEN patterns[CHOOSE i \in DOMAIN patterns :
                     /\ Matches(q, patterns[i])
                     /\ \A j \in 1..(i - 1) : ~Matches(q, patterns[j])]
    ELSE None

\* sum(1 for term in oceanographic_terms if term in query_lower)
oceanographic_count(q) ==
    Cardinality({t \in oceanographic_terms : Matches(q, t)})

Classification(needs_multi_agent, response) ==
    [needs_multi_agent |-> needs_multi_agent, response |-> response]

\* _get_previous_question_response
get_previous_question_response(history) ==
    IF history = <<>> THEN "start of our conversation"
    ELSE history[Len(history)]

\* _classify_query
classify_query(q, history) ==
    IF \E pattern \in list_patterns : Matches(q, pattern)
    THEN Classification(FALSE, "handled by the Main Agent")
    ELSE IF FirstMatch(conversational_patterns, q) # None
    THEN Classification(FALSE, FirstMatch(conversational_patterns, q))
    ELSE IF FirstMatch(previous_patterns, q) # None
    THEN Classification(FALSE, get_previous_question_response(history))
    ELSE IF \/ oceanographic_count(q) >= 2
            \/ \E term \in data_terms : Matches(q, term)
            \/ Matches(q, "\\d{7}")
    THEN Classification(TRUE, None)
    ELSE IF /\ oceanographic_count(q) = 1
            /\ \E word \in definition_words : Matches(q, word)
    THEN Classification(FALSE, "definition")
    ELSE Classification(FALSE, "I'm Oceanus")

ClassifyInit ==
    /\ asked \in ClassifierQueries
    /\ asked_history \in ClassifierHistories
    /\ routing = NotClassified
    /\ SessionsIdle
    /\ FilesIdle
    /\ LimiterIdle
    /\ GraphIdle
    /\ ManagerIdle
    /\ FormatterIdle
    /\ EmbedderIdle
    /\ RefinerIdle

\* CyclicMultiAgentArgoRAG.query: the query is classified, and answered at
\* once unless it needs the graph
CyclicMultiAgentArgoRAG_query ==
    /\ routing = NotClassified
    /\ routing' = [by |-> "_classify_query"]
                  @@ classify_query(asked, asked_history)
    /\ UNCHANGED <<asked, asked_history>>
    /\ UNCHANGED <<graphVars, storeVars, fileVars, rateVars, managerVars,
                   formatVars, embedVars, refineVars>>

\* MainAgent.query: the LLM answers with the routing marker, with a text of
\* its own, or the call raises
MainAgent_query ==
    /\ routing = NotClassified
    /\ \E llm \in {"ROUTE_TO_OCEANOGRAPHIC_AGENT:", "text", "raised"} :
        routing' = [by |-> "MainAgent.query",
                    needs_multi_agent |->
                        llm = "ROUTE_TO_OCEANOGRAPHIC_AGENT:",
                    response |->
                        IF llm = "ROUTE_TO_OCEANOGRAPHIC_AGENT:" THEN None
                        ELSE IF llm = "text" THEN "direct LLM response"
                        ELSE "I apologize"]
    /\ UNCHANGED <<asked, asked_history>>
    /\ UNCHANGED <<graphVars, storeVars, fileVars, rateVars, managerVars,
                   formatVars, embedVars, refineVars>>

ClassifyNext ==
    \/ CyclicMultiAgentArgoRAG_query
    \/ MainAgent_query

ClassifySpec == ClassifyInit /\ [][ClassifyNext]_vars

---------------------------------------------------------------------------
(* Properties of the classification *)

\* the query holds one of the fixed conversational patterns (greetings,
\* thanks, "previous question")
MatchedAsConversational(q) ==
    \/ FirstMatch(conversational_patterns, q) # None
    \/ FirstMatch(previous_patterns, q) # None

\* C26: every query that is not matched by the fixed conversational
\* pattern set, in particular every ambiguous query, is routed to the
\* multi-agent orchestrator rather than answered as conversational.
C26_UnmatchedIsRouted ==
    /\ routing # NotClassified
    /\ ~MatchedAsConversational(asked)
    => routing.needs_multi_agent

---------------------------------------------------------------------------
(* Response formatting: backend-chatbot/agents/response_agent.py *)

\* the largest result set followed
MaxResultRows == 102

\* len(agent_results['cockroachdb']['results'])
ResultCounts == {0, 10, 100, 101, MaxResultRows}

\* the phrases format_response looks for, and a query holding none
full_data_phrases ==
    {"whole data", "all data", "complete data", "entire data", "full data",
     "all measurements", "every measurement", "all rows", "complete list",
     "entire list"}

FormatQueries ==
    {{p} : p \in full_data_phrases} \cup {{"temperature in the arabian sea"}}

\* any(phrase in query.lower() for phrase in [...])
wants_full_data(q) == q \cap full_data_phrases # {}

\* mutant of large_dataset: a result of 101 rows is not taken for large
large_dataset_above_101(n) == n > 101

\* result_count > 100
large_dataset(n) == n > 100

\* results[:k], rows being named by their position
FirstRows(n, k) == [i \in 1..Min(n, k) |-> i]

\* the rows _prepare_context hands to the LLM
ContextRows(q, n) ==
    IF wants_full_data(q) /\ n > 100 THEN FirstRows(n, 10)
    ELSE FirstRows(n, n)

\* format_response; gemini_ok: generate_content returns; shown, counted:
\* whether the text of the LLM shows the rows it was given and states the
\* row count
format_response(q, n, gemini_ok, shown, counted) ==
    IF large_dataset(n) /\ ~wants_full_data(q)
    THEN Response("sample", FirstRows(n, 10), n)
    ELSE IF gemini_ok
    THEN Response("llm", IF shown THEN ContextRows(q, n) ELSE <<>>,
                  IF counted THEN n ELSE NoCount)
    ELSE IF n = 0
    THEN Response("error", <<>>, NoCount)
    ELSE IF wants_full_data(q)
    THEN Response("fallback table", FirstRows(n, 1000), n)
    ELSE Response("fallback sample", FirstRows(n, 10), n)

FormatInit ==
    /\ format_query \in FormatQueries
    /\ result_count \in ResultCounts
    /\ formatted = NotFormatted
    /\ VizIdle
    /\ SessionsIdle
    /\ FilesIdle
    /\ LimiterIdle
    /\ GraphIdle
    /\ ManagerIdle
    /\ ClassifierIdle
    /\ EmbedderIdle
    /\ RefinerIdle

\* ResponseAgent.format_response(query, agent_results)
ResponseAgent_format_response ==
    /\ formatted = NotFormatted
    /\ \E gemini_ok, shown, counted \in BOOLEAN :
        formatted' = format_response(format_query, result_count, gemini_ok,
                                     shown, counted)
    /\ UNCHANGED <<format_query, result_count, viz_results, viz_block>>
    /\ UNCHANGED <<graphVars, storeVars, fileVars, rateVars, managerVars,
                   classifyVars, embedVars, refineVars>>

FormatNext == ResponseAgent_format_response

FormatSpec == FormatInit /\ [][FormatNext]_vars

---------------------------------------------------------------------------
(* Visualization block: backend-chatbot/agents/response_agent.py *)

\* rows of the leading result
MaxVizRows == 11

\* the columns a result may have, in the order of the row's keys
Columns ==
    <<"platform_number", "time", "Date", "latitude", "longitude",
      "pres_adjusted", "temp_adjusted", "psal_adjusted", "temperature",
      "salinity">>

\* f.lower()
lower(f) == IF f = "Date" THEN "date" ELSE f

\* the first key of the row that is in S, None when there is none
FirstOf(S) ==
    IF \A i \in DOMAIN Columns : Columns[i] \notin S THEN None
    ELSE Columns[CHOOSE i \in DOMAIN Columns :
                    /\ Columns[i] \in S
                    /\ \A j \in 1..(i - 1) : Columns[j] \notin S]

\* one entry of visualizations: its type, data.fields, the pairs of
\* encodings, and the rows it carries: a prefix of the results or the
\* summary built from them
Chart(type, fields, encodings, rows) ==
    [type |-> type, fields |-> fields, encodings |-> encodings,
     rows |-> rows]

\* the keys of the rows of summary_data
summary_fields == {"platform", "measurements"}

\* data.fields of the composed chart
composed_fields(time_key, value_candidates) ==
    <<time_key, "temp_adjusted", "psal_adjusted">>

\* _build_visualization_block(results), results being a list of dicts
build_visualization_block(results) ==
    IF results.rows = 0 THEN Block(TRUE, <<>>)
    ELSE
    LET fields == results.fields
        fset == {lower(f) : f \in fields}
        time_key ==
            FirstOf({f \in fields : lower(f) \in {"time", "timestamp", "date"}})
        value_candidates ==
            {f \in fields :
                lower(f) \in {"temp_adjusted", "psal_adjusted",
                              "pres_adjusted", "temperature", "salinity",
                              "pressure"}}
        val == FirstOf(value_candidates)
        timed == time_key # None /\ value_candidates # {}
        y_key == IF "temp_adjusted" \in fset THEN "temp_adjusted"
                 ELSE IF "psal_adjusted" \in fset THEN "psal_adjusted"
                 ELSE None
        cf == composed_fields(time_key, value_candidates)
        line ==
            IF timed
            THEN <<Chart("line", <<time_key, val>>,
                         {<<"x", time_key>>, <<"y", val>>}, "results")>>
            ELSE <<>>
        area ==
            IF timed /\ "temp_adjusted" \in fset
            THEN <<Chart("area", <<time_key, "temp_adjusted">>,
                         {<<"x", time_key>>, <<"y", "temp_adjusted">>},
                         "results")>>
            ELSE <<>>
        scatter ==
            IF "pres_adjusted" \in fset /\ y_key # None
            THEN <<Chart("scatter", <<"pres_adjusted", y_key>>,
                         {<<"x", "pres_adjusted">>, <<"y", y_key>>},
                         "results")>>
            ELSE <<>>
        composed ==
            IF time_key # None /\ Cardinality(value_candidates) >= 2
            THEN <<Chart("composed", cf,
                         {<<"x", cf[1]>>, <<"y1", cf[2]>>, <<"y2", cf[3]>>},
                         "results")>>
            ELSE <<>>
        map_points ==
            IF "latitude" \in fset /\ "longitude" \in fset
            THEN <<Chart("map_points", <<"latitude", "longitude">>,
                         {<<"lat", "latitude">>, <<"lon", "longitude">>},
                         "results")>>
            ELSE <<>>
        heatmap ==
            IF /\ "latitude" \in fset
               /\ "longitude" \in fset
               /\ "temp_adjusted" \in fset
            THEN <<Chart("heatmap",
                         <<"latitude", "longitude", "temp_adjusted">>,
                         {<<"lat", "latitude">>, <<"lon", "longitude">>,
                          <<"value", "temp_adjusted">>}, "results")>>
            ELSE <<>>
        scatter3d ==
            IF {"latitude", "longitude", "pres_adjusted"} \subseteq fset
            THEN <<Chart("scatter3d",
                         <<"latitude", "longitude", "pres_adjusted">>,
                         {<<"x", "longitude">>, <<"y", "latitude">>,
                          <<"z", "pres_adjusted">>}, "results")>>
            ELSE <<>>
        bar ==
            IF results.rows > 10
            THEN <<Chart("bar", <<"platform", "measurements">>,
                         {<<"x", "platform">>, <<"y", "measurements">>},
                         "summary")>>
            ELSE <<>>
    IN  Block(TRUE, line \o area \o scatter \o composed \o map_points
                      \o heatmap \o scatter3d \o bar)

\* the results of the SQL agent: every row has the selected columns
VizResults ==
    {Rows({}, 0)} \cup
    {Rows(fields, n) : fields \in SUBSET Range(Columns) \ {{}},
                       n \in 1..MaxVizRows}

VizInit ==
    /\ viz_results \in VizResults
    /\ viz_block = Block(FALSE, <<>>)
    /\ format_query = {}
    /\ result_count = 0
    /\ formatted = NotFormatted
    /\ SessionsIdle
    /\ FilesIdle
    /\ LimiterIdle
    /\ GraphIdle
    /\ ManagerIdle
    /\ ClassifierIdle
    /\ EmbedderIdle
    /\ RefinerIdle

\* viz_block = self._build_visualization_block(results)
ResponseAgent_build_visualization_block ==
    /\ ~viz_block.built
    /\ viz_block' = build_visualization_block(viz_results)
    /\ UNCHANGED <<format_query, result_count, formatted, viz_results>>
    /\ UNCHANGED <<graphVars, storeVars, fileVars, rateVars, managerVars,
                   classifyVars, embedVars, refineVars>>

VizNext == ResponseAgent_build_visualization_block

VizSpec == VizInit /\ [][VizNext]_vars

---------------------------------------------------------------------------
(* Properties of the response formatting *)

---------------------------------------------------------------------------
(* Query embedding: SemanticAgent._get_query_embedding                     *)
(* (agent/multi_agent_rag.py), called in the executor threads of           *)
(* AgentManager._execute_query_with_history                                *)

\* calls of _get_query_embedding followed
MaxEmbeddings == 3

EmbeddingQueries == {"Salinity trends", "salinity trends", "similar floats"}

\* query.lower()
Lower(q) == IF q = "Salinity trends" THEN "salinity trends" ELSE q

\* int(hashlib.md5(query.lower().encode()).hexdigest()[:8], 16), as a
\* number that tells the lowercased queries apart
SeedOf(q) == IF Lower(q) = "salinity trends" THEN 1 ELSE 2

\* the vector np.random.normal(0, 0.1, 384) returns, normalised: it is
\* fixed by the seed of the generator and by the number of draws made
\* since it was seeded
Embedding(seed, draws) == [seed |-> seed, offset |-> draws]

NoEmbedding == Embedding(-1, -1)

\* a call of _get_query_embedding in a thread; pc: the statement it is at
Embedder(q) == [query |-> q, pc |-> "seed", embedding |-> NoEmbedding]

\* the module-level generator of numpy, as seeded by the system
EmbedInit ==
    /\ random_state = [seed |-> 0, draws |-> 0]
    /\ embedders = <<>>
    /\ SessionsIdle
    /\ FilesIdle
    /\ LimiterIdle
    /\ GraphIdle
    /\ ManagerIdle
    /\ ClassifierIdle
    /\ FormatterIdle
    /\ RefinerIdle

\* a thread of the executor enters _get_query_embedding(query)
get_query_embedding ==
    /\ Len(embedders) < MaxEmbeddings
    /\ \E q \in EmbeddingQueries : embedders' = Append(embedders, Embedder(q))
    /\ UNCHANGED random_state
    /\ UNCHANGED <<graphVars, storeVars, fileVars, rateVars, managerVars,
                   classifyVars, formatVars, refineVars>>

\* np.random.seed(seed)
random_seed ==
    /\ \E k \in DOMAIN embedders :
        /\ embedders[k].pc = "seed"
        /\ random_state' = [seed |-> SeedOf(embedders[k].query), draws |-> 0]
        /\ embedders' = [embedders EXCEPT ![k].pc = "draw"]
    /\ UNCHANGED <<graphVars, storeVars, fileVars, rateVars, managerVars,
                   classifyVars, formatVars, refineVars>>

\* embedding = np.random.normal(0, 0.1, 384), then the normalisation and
\* the return
random_normal ==
    /\ \E k \in DOMAIN embedders :
        /\ embedders[k].pc = "draw"
        /\ random_state' = [random_state EXCEPT !.draws = @ + 1]
        /\ embedders' = [embedders EXCEPT
                           ![k].pc = "done",
                           ![k].embedding = Embedding(random_state.seed,
                                                      random_state.draws)]
    /\ UNCHANGED <<graphVars, storeVars, fileVars, rateVars, managerVars,
                   classifyVars, formatVars, refineVars>>

EmbedNext ==
    \/ get_query_embedding
    \/ random_seed
    \/ random_normal

EmbedSpec == EmbedInit /\ [][EmbedNext]_vars

---------------------------------------------------------------------------
(* Properties of the query embedding *)

\* C28: for identical query strings (after lowercasing) the embedding is
\* identical on every call, also when several requests compute embeddings
\* concurrently in the executor thread pool.
C28_EmbeddingDeterministic ==
    \A i, j \in DOMAIN embedders :
        /\ embedders[i].pc = "done"
        /\ embedders[j].pc = "done"
        /\ Lower(embedders[i].query) = Lower(embedders[j].query)
        => embedders[i].embedding = embedders[j].embedding

---------------------------------------------------------------------------
(* The refinement of one intent, cycle after cycle.  max_cycles is a        *)
(* parameter of the constructor, so an intent can be refined any number of *)
(* times; each refinement gets the suggestions of the analysis before it.  *)

\* queries naming each region of parse_intent, and one naming none
RefinementQueries ==
    {[isStr |-> TRUE, phrases |-> {p}] :
        p \in {"salinity in the arabian sea",
               "salinity in the bay of bengal",
               "salinity in the equatorial indian ocean",
               "salinity in the southern indian ocean",
               "similar"}}

\* suggestion lists of _generate_refinement_suggestions: one that asks for
\* a larger area, one whose "expand" does not come with "spatial"
RefinementSuggestions ==
    {<<SuggestExpand>>, <<SuggestMetadata, SuggestSemantic>>}

\* the state in which the graph enters refine_intent for the first time
RefineInit ==
    /\ query \in RefinementQueries
    /\ max_cycles = MaxExpansions
    /\ intent = parse_intent_value(query)
    /\ cycle_count = 0
    /\ measurement_results = NoResult
    /\ metadata_results = NoResult
    /\ semantic_results = NoResult
    /\ analysis_results = NoAnalysis
    /\ needs_refinement = TRUE
    /\ refinement_suggestions \in RefinementSuggestions
    /\ quality_score = 0
    /\ final_response = None
    /\ error = None
    /\ pc = "refine_intent"
    /\ exec_count = 0
    /\ calls = [a \in Agents |-> 0]
    /\ last_called = {}
    /\ last_failed = {}
    /\ http_status = 0
    /\ StoreIdle

\* RefinementAgent.refine_and_retry on the intent of the state, followed by
\* the suggestions of the next analysis
RefinementAgent_refine_and_retry ==
    /\ pc = "refine_intent"
    /\ cycle_count < max_cycles
    /\ intent' = refine_and_retry(intent, refinement_suggestions)
    /\ original_intent' = passed_intent_after(intent, refinement_suggestions)
    /\ cycle_count' = next_cycle_count(cycle_count)
    /\ refinement_suggestions' \in RefinementSuggestions
    /\ UNCHANGED <<query, max_cycles, measurement_results, metadata_results,
                   semantic_results, analysis_results, needs_refinement,
                   quality_score, final_response, error, pc, exec_count,
                   calls, last_called, last_failed, http_status>>
    /\ UNCHANGED <<storeVars, fileVars, rateVars, managerVars, classifyVars,
                   formatVars, embedVars>>

RefineNext == RefinementAgent_refine_and_retry

RefineSpec == RefineInit /\ [][RefineNext]_vars

---------------------------------------------------------------------------
(* Properties of the spatial expansion *)

\* x, brought back into lo..hi
Clamped(x, lo, hi) == IF x < lo THEN lo ELSE IF x > hi THEN hi ELSE x

\* the suggestions ask for a larger area
AsksToExpandSpatial(sgs) == \E k \in DOMAIN sgs : sgs[k] = SuggestExpand

\* new is old moved out by 2 degrees on each side, inside the globe
ExpandedBy2(old, new) ==
    /\ new.min_lat = Clamped(old.min_lat - 2, -90, 90)
    /\ new.max_lat = Clamped(old.max_lat + 2, -90, 90)
    /\ new.min_lon = Clamped(old.min_lon - 2, -180, 180)
    /\ new.max_lon = Clamped(old.max_lon + 2, -180, 180)

\* a bounding box has its four fields, min <= max, and lies on the globe
BoxValid(sf) ==
    sf.present =>
        /\ {"min_lat", "max_lat", "min_lon", "max_lon"} \subseteq DOMAIN sf
        /\ sf.min_lat <= sf.max_lat
        /\ sf.min_lon <= sf.max_lon
        /\ -90 <= sf.min_lat /\ sf.max_lat <= 90
        /\ -180 <= sf.min_lon /\ sf.max_lon <= 180

\* C29: each expand_spatial refinement moves min_lat and min_lon down by 2
\* and max_lat and max_lon up by 2, clamped to [-90,90] and [-180,180];
\* after any number of refinement cycles the bounding box still has its
\* four fields, satisfies min <= max, and lies within the global limits.
C29_ExpansionBy2Clamped ==
    /\ [](BoxValid(intent.spatial_filter))
    /\ [][(/\ pc = "refine_intent"
           /\ intent.spatial_filter.present
           /\ AsksToExpandSpatial(refinement_suggestions))
          => /\ intent'.spatial_filter.present
             /\ ExpandedBy2(intent.spatial_filter, intent'.spatial_filter)]_vars

\* a box that was refined until the clamps held back its northern and its
\* eastern side
C29_Witness ==
    /\ pc = "refine_intent"
    /\ cycle_count > 0
    /\ intent.spatial_filter.present
    /\ intent.spatial_filter.max_lat = 90
    /\ intent.spatial_filter.max_lon = 180
    /\ intent.spatial_filter.min_lat > -90

---------------------------------------------------------------------------
(* The analysis of one bundle of agent results.  The bundles are every     *)
(* combination of the keys the analyzer looks at, so that the properties   *)
(* do not rest on what the agents of this repository return.               *)

\* measurement results: None, an error reply, or a reply with any of the
\* keys _assess_measurement_quality reads
MeasurementBundles ==
    {NoResult, ErrorResult}
    \cup {[NoResult EXCEPT !.present = TRUE, !.count = c, !.statistics = st,
                           !.time_range = tr, !.spatial_coverage = sc] :
            c \in {0, MaxRows}, st \in BOOLEAN, tr \in BOOLEAN,
            sc \in BOOLEAN}

\* metadata results: None, an error reply, or a reply with any of the keys
\* _assess_metadata_quality reads
MetadataBundles ==
    {NoResult, ErrorResult}
    \cup {[NoResult EXCEPT !.present = TRUE, !.float_metadata = fm,
                           !.summary = sm, !.float_count = fc] :
            fm \in BOOLEAN, sm \in BOOLEAN, fc \in BOOLEAN}

\* semantic results: None, an error reply, or a reply with any of the keys
\* _assess_semantic_quality reads
SemanticBundles ==
    {NoResult, ErrorResult}
    \cup {[NoResult EXCEPT !.present = TRUE, !.count = c, !.top_matches = tm] :
            c \in {0, MaxRows}, tm \in BOOLEAN}

\* the state in which the graph enters analyze_quality; with a query that
\* is not a str no agent has run and execute_agents has recorded its error
AnalyzeInit ==
    /\ query \in Queries
    /\ max_cycles = MaxCyclesBound
    /\ intent = IF query.isStr THEN parse_intent_value(query) ELSE NoneIntent
    /\ cycle_count = 0
    /\ measurement_results \in MeasurementBundles
    /\ metadata_results \in MetadataBundles
    /\ semantic_results \in SemanticBundles
    /\ analysis_results = NoAnalysis
    /\ needs_refinement = FALSE
    /\ refinement_suggestions = <<>>
    /\ quality_score = 0
    /\ final_response = None
    /\ error = IF query.isStr THEN None
               ELSE "'NoneType' object is not subscriptable"
    /\ \/ query.isStr
       \/ /\ measurement_results = NoResult
          /\ metadata_results = NoResult
          /\ semantic_results = NoResult
    /\ pc = "analyze_quality"
    /\ exec_count = 1
    /\ calls = [a \in Agents |-> 0]
    /\ last_called = {}
    /\ last_failed = {}
    /\ http_status = 0
    /\ StoreIdle

\* refine_intent, then an execute_agents whose agents return what they
\* returned in the cycle before: the analyzer is entered again with the
\* same query and the same bundle, in a later cycle and with the analysis
\* of the earlier call in the state
next_cycle_same_results ==
    /\ pc = "refine_intent"
    /\ intent' = refine_and_retry(intent, refinement_suggestions)
    /\ cycle_count' = next_cycle_count(cycle_count)
    /\ pc' = "analyze_quality"
    /\ UNCHANGED <<query, max_cycles, measurement_results, metadata_results,
                   semantic_results, analysis_results, needs_refinement,
                   refinement_suggestions, quality_score, final_response,
                   error, exec_count, calls, last_called, last_failed,
                   http_status>>
    /\ UNCHANGED notGraph

AnalyzeNext ==
    \/ analyze_quality
    \/ next_cycle_same_results

AnalyzeSpec == AnalyzeInit /\ [][AnalyzeNext]_vars

---------------------------------------------------------------------------
(* Properties of the analysis *)

\* C30: for every agent-result bundle, the analyzer's needs_refinement is
\* true if and only if the overall quality is below 0.7 or at least one
\* refinement suggestion is emitted.
C30_NeedsRefinementIff ==
    analysis_results.present =>
        (analysis_results.needs_refinement
            <=> \/ analysis_results.overall_quality < QualityGate
                \/ Len(analysis_results.refinement_suggestions) > 0)

\* an analysis whose overall quality passes the gate and that still asks
\* for a refinement, because it emitted a suggestion
C30_Witness ==
    /\ analysis_results.present
    /\ ~analysis_results.error
    /\ analysis_results.overall_quality >= QualityGate
    /\ Len(analysis_results.refinement_suggestions) > 0
    /\ analysis_results.needs_refinement
    /\ needs_refinement

\* the part of an analysis the callers read
Verdict(a) ==
    [quality_metrics |-> a.quality_metrics,
     overall_quality |-> a.overall_quality,
     needs_refinement |-> a.needs_refinement,
     refinement_suggestions |-> a.refinement_suggestions]

---------------------------------------------------------------------------
(* Properties of the conditional edge *)

\* C32: after each analyze step the orchestrator goes to refine_intent
\* exactly when needs_refinement is true and cycle_count < max_cycles, and
\* to synthesize_response otherwise; in particular it never refines once
\* needs_refinement is false.
C32_RefineIffNeeded ==
    [][pc = "analyze_quality" =>
          /\ pc' \in {"refine_intent", "synthesize_response"}
          /\ pc' = "refine_intent"
                <=> (needs_refinement' /\ cycle_count' < max_cycles')]_vars

\* C32, amended: after each analyze step the orchestrator goes to
\* refine_intent exactly when no error is recorded, needs_refinement is
\* true and cycle_count < max_cycles, and to synthesize_response otherwise.
C32_RefineIffNeededAndNoError ==
    [][pc = "analyze_quality" =>
          /\ pc' \in {"refine_intent", "synthesize_response"}
          /\ pc' = "refine_intent"
                <=> /\ error' = None
                    /\ needs_refinement'
                    /\ cycle_count' < max_cycles']_vars

\* an analysis found nothing to refine, with cycles left, and the graph
\* went on to the synthesis
C32_Witness ==
    /\ pc = "synthesize_response"
    /\ error = None
    /\ analysis_results.present
    /\ ~analysis_results.error
    /\ ~needs_refinement
    /\ cycle_count < max_cycles

---------------------------------------------------------------------------
(* Properties of the results the analyzer and the synthesis read *)

\* C33: whenever the analyzer runs in cycle N, the stored result of every
\* enabled agent is the one produced in cycle N (all enabled agents have
\* completed and their results of cycle N-1 have been overwritten); the
\* final synthesis likewise uses only results of the last cycle for every
\* agent that ran.  Every execute_agents step stores, for each enabled
\* agent, what its process() call of that step returned and hands over to
\* the analyzer; nothing changes the results between that step, the
\* analysis and the synthesis; a refinement is always followed by a new
\* execute_agents.
C33_ResultsOfThisCycle ==
    [][/\ (pc = "execute_agents" /\ ~intent.isNone) =>
            /\ pc' = "analyze_quality"
            /\ last_called' = EnabledAgents(intent)
            /\ intent.needs_measurements =>
                 \E sql \in SqlOutcomesFor(query, intent) :
                    measurement_results' =
                        MeasurementAgent_process(query, intent, sql).value
            /\ intent.needs_metadata =>
                 \E graph \in GraphOutcomesFor(query, intent) :
                    metadata_results' =
                        MetadataAgent_process(query, intent, graph).value
            /\ intent.needs_semantic =>
                 \E vec \in VecOutcomesFor(query, intent) :
                    semantic_results' =
                        SemanticAgent_process(query, intent, vec).value
       /\ pc \in {"analyze_quality", "synthesize_response"} =>
            UNCHANGED <<measurement_results, metadata_results,
                        semantic_results>>
       /\ pc = "refine_intent" => pc' = "execute_agents"]_vars

\* the analyzer is about to run in a later cycle on a measurement result
\* without rows, while the analysis of the cycle before saw rows: the
\* earlier result is gone
C33_Witness ==
    /\ pc = "analyze_quality"
    /\ cycle_count >= 1
    /\ "measurement" \in last_called
    /\ measurement_results.present
    /\ measurement_results.count = 0
    /\ analysis_results.present
    /\ analysis_results.quality_metrics.measurement_quality >= 24

---------------------------------------------------------------------------
(* Properties of the copy refine_and_retry works on *)

\* C34: refine_and_retry works on a copy: the intent passed to it, with its
\* spatial bounds and its flags, is unchanged after the call, and all
\* modifications appear only in the returned refined intent.
C34_PassedIntentUnchanged ==
    [][pc = "refine_intent" => original_intent' = intent]_vars

---------------------------------------------------------------------------
(* Properties of the suggestions *)

\* C35: every suggestion the analyzer emits belongs to the closed set
\* {expand_spatial, expand_temporal, broaden_semantic, enhance_metadata}:
\* each emitted suggestion is recognized by the refiner and mapped to
\* exactly one of these four refinements.
C35_SuggestionsRecognized ==
    \A k \in DOMAIN analysis_results.refinement_suggestions :
        refinement_of(analysis_results.refinement_suggestions[k])
            \in {"expand_spatial", "expand_temporal", "broaden_semantic",
                 "enhance_metadata"}

---------------------------------------------------------------------------
(* Properties of the completeness sub-score *)

\* the demanded agents whose stored result is there and is no error reply
AnsweredAgents ==
    {a \in DemandedAgents(query) :
        \/ a = "measurement" /\ measurement_results.present
                             /\ ~measurement_results.error
        \/ a = "metadata" /\ metadata_results.present
                          /\ ~metadata_results.error
        \/ a = "semantic" /\ semantic_results.present
                          /\ ~semantic_results.error}

\* C36: the completeness sub-score equals the number of demanded agents
\* that returned a non-error result divided by the number of demanded
\* agents, where an agent is demanded when the query contains a keyword of
\* its family; it lies in [0,1] for every query and result bundle.  (The
\* score is kept in sixtieths; the quotient is stated for the queries that
\* demand an agent.)
C36_CompletenessIsShareOfDemanded ==
    (/\ pc \in {"refine_intent", "synthesize_response"}
     /\ analysis_results.present
     /\ ~analysis_results.error) =>
        LET c == analysis_results.quality_metrics.completeness
            n == Cardinality(DemandedAgents(query))
        IN  /\ 0 <= c /\ c <= 60
            /\ n > 0 => c * n = 60 * Cardinality(AnsweredAgents)

\* two agents are demanded and one of them answered: the score is 1/2
C36_Witness ==
    /\ pc \in {"refine_intent", "synthesize_response"}
    /\ analysis_results.present
    /\ ~analysis_results.error
    /\ Cardinality(DemandedAgents(query)) = 2
    /\ Cardinality(AnsweredAgents) = 1
    /\ analysis_results.quality_metrics.completeness = 30

---------------------------------------------------------------------------
(* Properties of the sweeper and the session API *)

\* a sweeper pass holds the lock: it is before its scan, or between its scan
\* and its deletions
InSweep == sweeper.pc \in {"scan", "delete"}

\* the API calls that are inside their critical section
InCall == {k \in DOMAIN threads : threads[k].pc \in {"exists", "load", "save"}}

---------------------------------------------------------------------------
(* Properties of the visualization block *)

\* the fields a chart names in data.fields and in its encodings
NamedFields(chart) == Range(chart.fields) \cup {e[2] : e \in chart.encodings}

\* the keys of the rows a chart carries
RowFields(chart) ==
    IF chart.rows = "summary" THEN summary_fields ELSE viz_results.fields

\* C38: a visualization spec is emitted only when the leading result has at
\* least one row and, for every emitted chart, every field named in that
\* chart's data.fields and encodings is a field of the rows.
C38_ChartsNameResultFields ==
    viz_block.visualizations # <<>> =>
        /\ viz_results.rows >= 1
        /\ \A i \in DOMAIN viz_block.visualizations :
            NamedFields(viz_block.visualizations[i])
                \subseteq RowFields(viz_block.visualizations[i])

---------------------------------------------------------------------------
(* Properties of the turns of a successful chat request *)

\* chat answers request r with success in this step
RepliesSuccess(r) ==
    /\ requests[r].outcome = "pending"
    /\ requests'[r].outcome = "success"

\* the messages lst hold the user turn of request r immediately followed by
\* its assistant turn
TurnsAdjacent(lst, r) ==
    \E i \in 1..(Len(lst) - 1) :
        /\ lst[i].request = r
        /\ lst[i].role = "user"
        /\ lst[i + 1].request = r
        /\ lst[i + 1].role = "assistant"

\* C39: whenever POST /api/v1/chat returns success for a session, that
\* session's history contains the request's user turn immediately followed
\* by its assistant turn, for every interleaving with other operations on
\* the same session (a concurrent chat request, an explicit delete, the
\* sweeper).
C39_SuccessHasAdjacentTurns ==
    [][\A r \in DOMAIN requests :
        RepliesSuccess(r) =>
            /\ requests[r].session_id \in DOMAIN sessions'
            /\ TurnsAdjacent(sessions'[requests[r].session_id].messages, r)]_vars

---------------------------------------------------------------------------
(* Properties of the metrics *)

\* the quotient q is between 0 and 1
InUnitInterval(q) == 0 <= q.num /\ q.num <= q.den

\* the quotients p and q are the same number
SameNumber(p, q) == p.num * q.den = q.num * p.den

\* the share of failed queries among the queries that ended, 0 when none did
FailedShare ==
    IF ended.succeeded + ended.failed = 0 THEN Quotient(0, 1)
    ELSE Quotient(ended.failed, ended.succeeded + ended.failed)

\* C40: after any sequence of successful, failed and timed-out queries (and
\* metric resets), the error_rate reported by the metrics and health
\* endpoints is between 0 and 1 and equals the share of failed queries among
\* all queries attempted.
C40_ErrorRateIsFailedShare ==
    /\ InUnitInterval(error_rate(query_count, error_count))
    /\ SameNumber(error_rate(query_count, error_count), FailedShare)

====
